---- MODULE Spec2Model ----
(***************************************************************************)
(* A model of the deterministic auction simulation and of the              *)
(* configuration-keyed cache of gads-sim-backend:                          *)
(*   app/core/deterministic_cache.py   DeterministicCache                  *)
(*   app/core/cached_simulation.py     CachedSimulationService             *)
(*   app/core/enhanced_auction.py      run_auction and the pipeline        *)
(*   app/core/volume_estimation.py     VolumeEstimationEngine              *)
(*   app/api/enhanced_simulate.py      run_enhanced_simulation             *)
(*                                                                         *)
(* Conventions.  Money is counted in cents, an ad rank in cents x quality  *)
(* score, time in hours.  A JSON value is a record [t, v]: t = "a" an atom *)
(* whose v is its JSON text, t = "d" a dict whose v is the sequence of     *)
(* <<key, value>> pairs in insertion order, t = "l" a list.                *)
(***************************************************************************)
EXTENDS Integers, Sequences, FiniteSets, TLC

VARIABLES
    memory_cache,   \* DeterministicCache.memory_cache: key -> CacheEntry
    cache_dir,      \* the *.pkl files of DeterministicCache.cache_dir: key -> CacheEntry
    stats,          \* DeterministicCache.stats
    now,            \* datetime.now(), in hours
    ret,            \* the last operation and what it returned
    last_set,       \* history: key -> what the last set for the key stored
    cache_enabled,  \* CachedSimulationService.cache_enabled
    calls,          \* history: request -> the responses run_cached_simulation gave
    cfg1,           \* the two configurations handed to _generate_config_hash
    cfg2,
    keys,           \* their cache keys, once computed
    ads,            \* the participants handed to run_auction
    winners,        \* what run_auction returned for them
    salt,           \* per process: the salt of the interpreter's str hash
    output,         \* per process: what the enhanced pipeline produced
    request,        \* the simulation request handed to the processes
    rng             \* per process: the state of the global numpy generator

cacheVars == <<memory_cache, cache_dir, stats, now, last_set>>
svcVars   == <<cache_enabled, calls>>
hashVars  == <<cfg1, cfg2, keys>>
aucVars   == <<ads, winners>>
procVars  == <<salt, output, request, rng>>
vars == <<memory_cache, cache_dir, stats, now, ret, last_set, cache_enabled, calls,
          cfg1, cfg2, keys, ads, winners, salt, output, request, rng>>

(***************************************************************************)
(* Generic helpers.                                                        *)
(***************************************************************************)
Range(s) == {s[i] : i \in DOMAIN s}

Min(a, b) == IF a <= b THEN a ELSE b

Max(a, b) == IF a >= b THEN a ELSE b

\* The index of x in the sequence s (x occurs in s).
IndexOf(s, x) == CHOOSE i \in DOMAIN s : s[i] = x

\* The function f without the key k.
Without(f, k) == [x \in DOMAIN f \ {k} |-> f[x]]

\* The function f with f[k] = v, k added when absent.
With(f, k, v) == [x \in DOMAIN f \cup {k} |-> IF x = k THEN v ELSE f[x]]

(***************************************************************************)
(* JSON values and the canonical cache key.                                *)
(***************************************************************************)
JAtom(s) == [t |-> "a", v |-> s]

\* A JSON string and a JSON number.
JStr(s) == JAtom(<<"str", s>>)

JNum(n) == JAtom(<<"num", n>>)

JDict(pairs) == [t |-> "d", v |-> pairs]

JList(items) == [t |-> "l", v |-> items]

\* Python's order on the key strings that occur in a configuration.
KeyOrder == <<"bid", "campaign_context", "geo", "goal", "keywords", "lp_score",
              "match_type", "quality_score", "reach_methods", "seed", "test", "text">>

KeyRank == [k \in Range(KeyOrder) |-> IndexOf(KeyOrder, k)]

\* sorted(obj.keys()) applied to the pairs of a dict.
RECURSIVE SortedPairs(_)
SortedPairs(pairs) ==
    IF pairs = <<>> THEN <<>>
    ELSE LET rest == SortedPairs(Tail(pairs))
             p    == Head(pairs)
             RECURSIVE Ins(_)
             Ins(s) == IF s = <<>> THEN <<p>>
                       ELSE IF KeyRank[p[1]] < KeyRank[Head(s)[1]] THEN <<p>> \o s
                       ELSE <<Head(s)>> \o Ins(Tail(s))
         IN  Ins(rest)

RECURSIVE _sort_config_recursive(_)
_sort_config_recursive(obj) ==
    IF obj.t = "d"
    THEN LET sp == SortedPairs(obj.v)
         IN  JDict([i \in DOMAIN sp |-> <<sp[i][1], _sort_config_recursive(sp[i][2])>>])
    ELSE IF obj.t = "l"
    THEN JList([i \in DOMAIN obj.v |-> _sort_config_recursive(obj.v[i])])
    ELSE obj

\* json.dumps(obj, sort_keys = sort_keys, separators = (',', ':')) as the
\* sequence of its tokens.
RECURSIVE json_dumps(_, _)
json_dumps(obj, sort_keys) ==
    IF obj.t = "d"
    THEN LET ps == IF sort_keys THEN SortedPairs(obj.v) ELSE obj.v
             RECURSIVE Items(_)
             Items(i) == IF i > Len(ps) THEN <<>>
                         ELSE (IF i > 1 THEN <<",">> ELSE <<>>)
                              \o <<ps[i][1], ":">> \o json_dumps(ps[i][2], sort_keys)
                              \o Items(i + 1)
         IN  <<"{">> \o Items(1) \o <<"}">>
    ELSE IF obj.t = "l"
    THEN LET RECURSIVE Elems(_)
             Elems(i) == IF i > Len(obj.v) THEN <<>>
                         ELSE (IF i > 1 THEN <<",">> ELSE <<>>)
                              \o json_dumps(obj.v[i], sort_keys) \o Elems(i + 1)
         IN  <<"[">> \o Elems(1) \o <<"]">>
    ELSE <<obj.v>>

\* hashlib.sha256(...).hexdigest(): the digest is taken to be collision free,
\* so a digest is told apart by the text it was computed from.
sha256(text) == [hexdigest_of |-> text]

\* A plausible slip: the configuration is digested as it came, keys unsorted.
HashUnsorted(config) == sha256(json_dumps(config, FALSE))

_generate_config_hash(config) ==
    sha256(json_dumps(_sort_config_recursive(config), TRUE))

(***************************************************************************)
(* DeterministicCache.  A cache object is the record                       *)
(* [memory_cache, cache_dir, stats]; every method is an operator from the  *)
(* object (and the clock) to the object after the call and the value       *)
(* returned.  A returned None is <<>>, a returned payload d is <<d>>.      *)
(***************************************************************************)
ttl_hours == 24

NoEntries == [k \in {} |-> 0]

ZeroStats == [hits |-> 0, misses |-> 0, evictions |-> 0, total_requests |-> 0]

\* DeterministicCache.__init__ over a cache directory that may hold files.
NewCache(dir) == [memory_cache |-> NoEntries, cache_dir |-> dir, stats |-> ZeroStats]

CacheEntry(key, data, created_at, expires_at, hit_count, last_accessed) ==
    [key |-> key, data |-> data, created_at |-> created_at, expires_at |-> expires_at,
     hit_count |-> hit_count, last_accessed |-> last_accessed]

\* A plausible slip: the age of the entry is compared, not its expiry time.
IsExpiredByCreation(entry, t) == t > entry.created_at

_is_expired(entry, t) == t > entry.expires_at

Bump(st, field) == [st EXCEPT ![field] = @ + 1]

Touched(entry, t) == [entry EXCEPT !.hit_count = @ + 1, !.last_accessed = t]

\* A plausible slip: an entry found expired is reported as a miss but left
\* where it is.
GetKeepsExpired(C, config, t) ==
    LET cache_key == _generate_config_hash(config)
        st0 == Bump(C.stats, "total_requests")
        inMem == cache_key \in DOMAIN C.memory_cache
        onDisk == cache_key \in DOMAIN C.cache_dir
    IN  IF inMem /\ ~_is_expired(C.memory_cache[cache_key], t)
        THEN [cache |-> [C EXCEPT !.stats = Bump(st0, "hits"),
                                  !.memory_cache[cache_key] = Touched(@, t)],
              value |-> <<C.memory_cache[cache_key].data>>, tier |-> "memory"]
        ELSE IF onDisk /\ ~_is_expired(C.cache_dir[cache_key].entry, t)
        THEN [cache |-> [C EXCEPT !.stats = Bump(st0, "hits"),
                                  !.memory_cache = With(C.memory_cache, cache_key,
                                                   Touched(C.cache_dir[cache_key].entry, t))],
              value |-> <<C.cache_dir[cache_key].entry.data>>, tier |-> "disk"]
        ELSE [cache |-> [C EXCEPT !.stats = Bump(st0, "misses")],
              value |-> <<>>, tier |-> "miss"]

\* A plausible slip: a hit served from the persistent tier is counted as a miss.
GetDiskHitAsMiss(C, config, t) ==
    LET cache_key == _generate_config_hash(config)
        st0 == Bump(C.stats, "total_requests")
        inMem == cache_key \in DOMAIN C.memory_cache
        memLive == inMem /\ ~_is_expired(C.memory_cache[cache_key], t)
        m1 == IF inMem /\ ~memLive THEN Without(C.memory_cache, cache_key)
              ELSE C.memory_cache
        st1 == IF inMem /\ ~memLive THEN Bump(st0, "evictions") ELSE st0
        onDisk == cache_key \in DOMAIN C.cache_dir
    IN  IF memLive
        THEN [cache |-> [C EXCEPT !.stats = Bump(st0, "hits"),
                                  !.memory_cache[cache_key] = Touched(@, t)],
              value |-> <<C.memory_cache[cache_key].data>>, tier |-> "memory"]
        ELSE IF onDisk /\ ~_is_expired(C.cache_dir[cache_key].entry, t)
        THEN [cache |-> [C EXCEPT !.stats = Bump(st1, "misses"),
                                  !.memory_cache = With(m1, cache_key,
                                                   Touched(C.cache_dir[cache_key].entry, t))],
              value |-> <<C.cache_dir[cache_key].entry.data>>, tier |-> "disk"]
        ELSE [cache |-> [memory_cache |-> m1,
                         cache_dir |-> IF onDisk THEN Without(C.cache_dir, cache_key)
                                       ELSE C.cache_dir,
                         stats |-> Bump(IF onDisk THEN Bump(st1, "evictions") ELSE st1,
                                        "misses")],
              value |-> <<>>, tier |-> "miss"]

\* A plausible slip: the branch that removes an expired file returns None at
\* once, before the miss is counted.
GetSkipsMissCount(C, config, t) ==
    LET cache_key == _generate_config_hash(config)
        st0 == Bump(C.stats, "total_requests")
        inMem == cache_key \in DOMAIN C.memory_cache
        memLive == inMem /\ ~_is_expired(C.memory_cache[cache_key], t)
        m1 == IF inMem /\ ~memLive THEN Without(C.memory_cache, cache_key)
              ELSE C.memory_cache
        st1 == IF inMem /\ ~memLive THEN Bump(st0, "evictions") ELSE st0
        onDisk == cache_key \in DOMAIN C.cache_dir
    IN  IF memLive
        THEN [cache |-> [C EXCEPT !.stats = Bump(st0, "hits"),
                                  !.memory_cache[cache_key] = Touched(@, t)],
              value |-> <<C.memory_cache[cache_key].data>>, tier |-> "memory"]
        ELSE IF onDisk /\ ~_is_expired(C.cache_dir[cache_key].entry, t)
        THEN [cache |-> [C EXCEPT !.stats = Bump(st1, "hits"),
                                  !.memory_cache = With(m1, cache_key,
                                                   Touched(C.cache_dir[cache_key].entry, t))],
              value |-> <<C.cache_dir[cache_key].entry.data>>, tier |-> "disk"]
        ELSE IF onDisk
        THEN [cache |-> [memory_cache |-> m1,
                         cache_dir |-> Without(C.cache_dir, cache_key),
                         stats |-> Bump(st1, "evictions")],
              value |-> <<>>, tier |-> "miss"]
        ELSE [cache |-> [C EXCEPT !.memory_cache = m1, !.stats = Bump(st1, "misses")],
              value |-> <<>>, tier |-> "miss"]

\* DeterministicCache.get at time t.  The entry file is read as it was written
\* (pickle.load returns what pickle.dump stored).
get(C, config, t) ==
    LET cache_key == _generate_config_hash(config)
        st0 == Bump(C.stats, "total_requests")
        inMem == cache_key \in DOMAIN C.memory_cache
        memLive == inMem /\ ~_is_expired(C.memory_cache[cache_key], t)
        \* an expired memory entry is deleted and counted as an eviction
        m1 == IF inMem /\ ~memLive THEN Without(C.memory_cache, cache_key)
              ELSE C.memory_cache
        st1 == IF inMem /\ ~memLive THEN Bump(st0, "evictions") ELSE st0
        onDisk == cache_key \in DOMAIN C.cache_dir
    IN  IF memLive
        THEN [cache |-> [C EXCEPT !.stats = Bump(st0, "hits"),
                                  !.memory_cache[cache_key] = Touched(@, t)],
              value |-> <<C.memory_cache[cache_key].data>>, tier |-> "memory"]
        ELSE IF onDisk /\ ~_is_expired(C.cache_dir[cache_key].entry, t)
        THEN [cache |-> [C EXCEPT !.stats = Bump(st1, "hits"),
                                  !.memory_cache = With(m1, cache_key,
                                                   Touched(C.cache_dir[cache_key].entry, t))],
              value |-> <<C.cache_dir[cache_key].entry.data>>, tier |-> "disk"]
        ELSE [cache |-> [memory_cache |-> m1,
                         cache_dir |-> IF onDisk THEN Without(C.cache_dir, cache_key)
                                       ELSE C.cache_dir,
                         stats |-> Bump(IF onDisk THEN Bump(st1, "evictions") ELSE st1,
                                        "misses")],
              value |-> <<>>, tier |-> "miss"]

\* DeterministicCache.set at time t; custom_ttl_hours = 0 stands for None too
\* (custom_ttl_hours or self.ttl_hours).  The file's mtime is the time of the write.
set(C, config, data, custom_ttl_hours, t) ==
    LET cache_key == _generate_config_hash(config)
        ttl == IF custom_ttl_hours = 0 THEN ttl_hours ELSE custom_ttl_hours
        entry == CacheEntry(cache_key, data, t, t + ttl, 0, t)
    IN  [cache |-> [C EXCEPT !.memory_cache = With(C.memory_cache, cache_key, entry),
                             !.cache_dir = With(C.cache_dir, cache_key,
                                                [entry |-> entry, st_mtime |-> t])],
         value |-> cache_key]

\* A plausible slip: only the memory copy is dropped.
InvalidateMemoryOnly(C, config) ==
    LET cache_key == _generate_config_hash(config)
    IN  [cache |-> [C EXCEPT !.memory_cache =
                        IF cache_key \in DOMAIN C.memory_cache
                        THEN Without(C.memory_cache, cache_key) ELSE C.memory_cache],
         value |-> cache_key \in DOMAIN C.memory_cache]

invalidate(C, config) ==
    LET cache_key == _generate_config_hash(config)
        inMem == cache_key \in DOMAIN C.memory_cache
        onDisk == cache_key \in DOMAIN C.cache_dir
    IN  [cache |-> [C EXCEPT !.memory_cache = IF inMem THEN Without(C.memory_cache, cache_key)
                                              ELSE C.memory_cache,
                             !.cache_dir = IF onDisk THEN Without(C.cache_dir, cache_key)
                                           ELSE C.cache_dir],
         value |-> inMem \/ onDisk]

\* A plausible slip: the entries are wiped but the counters are kept.
ClearKeepsStats(C) == [C EXCEPT !.memory_cache = NoEntries, !.cache_dir = NoEntries]

clear(C) == [memory_cache |-> NoEntries, cache_dir |-> NoEntries, stats |-> ZeroStats]

\* hit_rate is the fraction hits / total_requests, kept as numerator and
\* denominator; the integer 0 of an unused cache is 0 / 1.
get_stats(C) ==
    [hits |-> C.stats.hits, misses |-> C.stats.misses, evictions |-> C.stats.evictions,
     total_requests |-> C.stats.total_requests,
     hit_rate |-> IF C.stats.total_requests > 0
                  THEN <<C.stats.hits, C.stats.total_requests>> ELSE <<0, 1>>,
     memory_entries |-> Cardinality(DOMAIN C.memory_cache),
     persistent_files |-> Cardinality(DOMAIN C.cache_dir)]

\* _cleanup_expired at time t.
_cleanup_expired(C, t) ==
    LET expired_keys == {k \in DOMAIN C.memory_cache : _is_expired(C.memory_cache[k], t)}
    IN  [C EXCEPT !.memory_cache = [k \in DOMAIN C.memory_cache \ expired_keys |->
                                        C.memory_cache[k]],
                  !.stats.evictions = @ + Cardinality(expired_keys)]

\* DeterministicCache.cleanup at time t.
cleanup(C, t) ==
    LET C1 == _cleanup_expired(C, t)
        cutoff_time == t - ttl_hours * 2
        old == {k \in DOMAIN C1.cache_dir : C1.cache_dir[k].st_mtime < cutoff_time}
    IN  [C1 EXCEPT !.cache_dir = [k \in DOMAIN C1.cache_dir \ old |-> C1.cache_dir[k]]]

(***************************************************************************)
(* The cache as a state machine: one action per method, a clock, and the   *)
(* replacement of the instance by a fresh one over the same directory.     *)
(***************************************************************************)
MaxTime == 60

TickStep == 30

MaxRequests == 2

\* Two configurations that differ only in the order of their keys, and a third.
ConfigA == JDict(<< <<"geo", JStr("US")>>, <<"seed", JNum(12345)>> >>)

ConfigA2 == JDict(<< <<"seed", JNum(12345)>>, <<"geo", JStr("US")>> >>)

ConfigB == JDict(<< <<"geo", JStr("US")>>, <<"seed", JNum(12346)>> >>)

CacheConfigs == {ConfigA, ConfigA2, ConfigB}

Payloads == {"R1", "R2"}

\* custom_ttl_hours: None, and the 168 hours of run_reproducible_simulation.
TTLChoices == {0, 168}

Self == [memory_cache |-> memory_cache, cache_dir |-> cache_dir, stats |-> stats]

SetSelf(C) ==
    /\ memory_cache' = C.memory_cache
    /\ cache_dir' = C.cache_dir
    /\ stats' = C.stats

OtherIdle == UNCHANGED <<svcVars, hashVars, aucVars, procVars>>

CacheInit ==
    /\ memory_cache = NoEntries
    /\ cache_dir = NoEntries
    /\ stats = ZeroStats
    /\ now = 0
    /\ ret = [op |-> "init"]
    /\ last_set = NoEntries

IdleInit ==
    /\ cache_enabled = TRUE
    /\ calls = <<>>
    /\ cfg1 = JStr("")
    /\ cfg2 = JStr("")
    /\ keys = <<>>
    /\ ads = <<>>
    /\ winners = <<>>
    /\ salt = <<>>
    /\ output = <<>>
    /\ request = <<>>
    /\ rng = <<>>

Init == CacheInit /\ IdleInit

Get(c) ==
    /\ stats.total_requests < MaxRequests
    /\ \E r \in {get(Self, c, now)} :
           /\ SetSelf(r.cache)
           /\ ret' = [op |-> "get", config |-> c, value |-> r.value, tier |-> r.tier]
    /\ UNCHANGED <<now, last_set>>
    /\ OtherIdle

Set(c, d, ttl) ==
    /\ \E r \in {set(Self, c, d, ttl, now)} :
           /\ SetSelf(r.cache)
           /\ ret' = [op |-> "set", config |-> c, value |-> r.value]
           /\ last_set' = With(last_set, r.value,
                               [data |-> d,
                                expires_at |-> r.cache.memory_cache[r.value].expires_at])
    /\ UNCHANGED now
    /\ OtherIdle

Invalidate(c) ==
    /\ \E r \in {invalidate(Self, c)} :
           /\ SetSelf(r.cache)
           /\ ret' = [op |-> "invalidate", config |-> c, value |-> r.value]
    /\ last_set' = [k \in DOMAIN last_set \ {_generate_config_hash(c)} |-> last_set[k]]
    /\ UNCHANGED now
    /\ OtherIdle

Clear ==
    /\ SetSelf(clear(Self))
    /\ ret' = [op |-> "clear",
               wiped |-> Cardinality(DOMAIN memory_cache \cup DOMAIN cache_dir),
               requests |-> stats.total_requests]
    /\ last_set' = NoEntries
    /\ UNCHANGED now
    /\ OtherIdle

GetStats ==
    /\ ret' = [op |-> "get_stats", value |-> get_stats(Self)]
    /\ UNCHANGED cacheVars
    /\ OtherIdle

Cleanup ==
    /\ SetSelf(cleanup(Self, now))
    /\ ret' = [op |-> "cleanup"]
    /\ UNCHANGED <<now, last_set>>
    /\ OtherIdle

\* Time passes.
Tick ==
    /\ now + TickStep <= MaxTime
    /\ now' = now + TickStep
    /\ ret' = [op |-> "tick"]
    /\ UNCHANGED <<memory_cache, cache_dir, stats, last_set>>
    /\ OtherIdle

\* The process restarts: a new DeterministicCache over the same directory.
Restart ==
    /\ SetSelf(NewCache(cache_dir))
    /\ ret' = [op |-> "restart"]
    /\ last_set' = NoEntries
    /\ cache_enabled' = TRUE
    /\ UNCHANGED <<now, calls, hashVars, aucVars, procVars>>

Next ==
    \/ \E c \in CacheConfigs : Get(c)
    \/ \E c \in CacheConfigs, d \in Payloads, ttl \in TTLChoices : Set(c, d, ttl)
    \/ \E c \in CacheConfigs : Invalidate(c)
    \/ Clear
    \/ GetStats
    \/ Cleanup
    \/ Tick
    \/ Restart

Spec == Init /\ [][Next]_vars

(***************************************************************************)
(* DeterministicCache.get, set and invalidate as the steps two threads of  *)
(* one process take on the same key.  Here a file of cache_dir is the      *)
(* record [inode, chunks]: pickle.dump writes the entry as two chunks, and *)
(* the file unpickles when both chunks are there and of the same entry.    *)
(* A thread that has the file open writes to its inode; once the name is   *)
(* unlinked (or unlinked and created again) what it writes is lost.        *)
(* request gives each thread its call and output its locals.  The process  *)
(* starts at hour 48 over a directory that is empty or holds one earlier   *)
(* entry, expired or not.                                                  *)
(***************************************************************************)
DiskThreads == {"t1", "t2"}

DiskKey == _generate_config_hash(ConfigA)

DiskCalls == {[op |-> "get", data |-> ""], [op |-> "set", data |-> "R1"],
              [op |-> "set", data |-> "R2"], [op |-> "invalidate", data |-> ""]}

Chunk(part, entry) == [part |-> part, entry |-> entry]

\* The file a finished pickle.dump(entry, f) leaves.
PickledFile(inode, entry) ==
    [inode |-> inode, chunks |-> <<Chunk(1, entry), Chunk(2, entry)>>]

\* pickle.load(f) succeeds.
Unpickles(file) ==
    /\ Len(file.chunks) = 2
    /\ file.chunks[1].part = 1
    /\ file.chunks[2].part = 2
    /\ file.chunks[1].entry = file.chunks[2].entry

\* f.write of chunk number part at its offset; a write past the end of a
\* file truncated meanwhile leaves a hole before it.
WriteChunk(chunks, part, entry) ==
    IF Len(chunks) >= part THEN [chunks EXCEPT ![part] = Chunk(part, entry)]
    ELSE IF Len(chunks) = part - 1 THEN Append(chunks, Chunk(part, entry))
    ELSE <<Chunk(0, 0), Chunk(part, entry)>>

DiskIdle == UNCHANGED <<now, last_set, svcVars, hashVars, aucVars, salt, rng, request>>

DiskInit ==
    /\ request \in [DiskThreads -> DiskCalls]
    /\ output = [t \in DiskThreads |->
                   [pc |-> "start", inode |-> "", observed |-> "nothing",
                    raised |-> FALSE, value |-> <<>>, io_failed |-> FALSE]]
    /\ memory_cache = NoEntries
    /\ cache_dir \in {NoEntries}
                       \cup {With(NoEntries, DiskKey,
                                  PickledFile("t0", CacheEntry(DiskKey, "R0", at, at + ttl_hours,
                                                               0, at))) : at \in {0, 30}}
    /\ stats = ZeroStats
    /\ now = 48
    /\ ret = [op |-> "init"]
    /\ last_set = NoEntries
    /\ rng = <<>>
    /\ ads = <<>>
    /\ winners = <<>>
    /\ cache_enabled = TRUE
    /\ calls = <<>>
    /\ cfg1 = JStr("")
    /\ cfg2 = JStr("")
    /\ keys = <<>>
    /\ salt = <<>>

\* Thread t moves to pc with its locals changed to o.
DiskStep(t, o, op) ==
    /\ output' = [output EXCEPT ![t] = o]
    /\ ret' = [op |-> op]
    /\ DiskIdle

\* The CacheEntry thread t's set makes.
EntryOf(t) == CacheEntry(DiskKey, request[t].data, now, now + ttl_hours, 0, now)

\* set, lines 191-208: the entry is made and stored in memory_cache.
SetMemory(t) ==
    /\ output[t].pc = "start" /\ request[t].op = "set"
    /\ memory_cache' = With(memory_cache, DiskKey, EntryOf(t))
    /\ UNCHANGED <<cache_dir, stats>>
    /\ DiskStep(t, [output[t] EXCEPT !.pc = "open"], "set")

\* set, line 213: open(cache_file, 'wb') creates the file, or truncates the
\* one there and writes to its inode.
SetOpen(t) ==
    /\ output[t].pc = "open"
    /\ cache_dir' = IF DiskKey \in DOMAIN cache_dir
                    THEN [cache_dir EXCEPT ![DiskKey].chunks = <<>>]
                    ELSE With(cache_dir, DiskKey, [inode |-> t, chunks |-> <<>>])
    /\ UNCHANGED <<memory_cache, stats>>
    /\ DiskStep(t, [output[t] EXCEPT !.pc = "dump1",
                                     !.inode = IF DiskKey \in DOMAIN cache_dir
                                               THEN cache_dir[DiskKey].inode ELSE t], "set")

\* set, lines 213 and 216-219: the open raises (no space, no permission);
\* the error is logged and the key returned.
SetOpenFails(t) ==
    /\ output[t].pc = "open"
    /\ UNCHANGED <<memory_cache, cache_dir, stats>>
    /\ DiskStep(t, [output[t] EXCEPT !.pc = "done", !.io_failed = TRUE,
                                     !.value = <<DiskKey>>], "set")

\* set, line 214: pickle.dump writes a chunk to the inode opened, whose
\* number SetOpen kept; line 219 returns the key after the last.
SetDump(t, part) ==
    /\ output[t].pc = (IF part = 1 THEN "dump1" ELSE "dump2")
    /\ cache_dir' =
          IF DiskKey \in DOMAIN cache_dir /\ cache_dir[DiskKey].inode = output[t].inode
          THEN [cache_dir EXCEPT ![DiskKey].chunks =
                    WriteChunk(@, part, EntryOf(t))]
          ELSE cache_dir
    /\ UNCHANGED <<memory_cache, stats>>
    /\ DiskStep(t, IF part = 1 THEN [output[t] EXCEPT !.pc = "dump2"]
                   ELSE [output[t] EXCEPT !.pc = "done", !.value = <<DiskKey>>], "set")

\* get, lines 131-149: the request is counted and memory_cache looked up.
GetMemory(t) ==
    /\ output[t].pc = "start" /\ request[t].op = "get"
    /\ LET counted == [stats EXCEPT !.total_requests = @ + 1]
           held == DiskKey \in DOMAIN memory_cache
           live == held /\ ~_is_expired(memory_cache[DiskKey], now)
       IN  /\ memory_cache' = IF held /\ ~live THEN Without(memory_cache, DiskKey)
                              ELSE IF live
                              THEN [memory_cache EXCEPT ![DiskKey].hit_count = @ + 1,
                                                        ![DiskKey].last_accessed = now]
                              ELSE memory_cache
           /\ stats' = IF live THEN [counted EXCEPT !.hits = @ + 1]
                       ELSE IF held THEN [counted EXCEPT !.evictions = @ + 1]
                       ELSE counted
           /\ UNCHANGED cache_dir
           /\ DiskStep(t, IF live
                          THEN [output[t] EXCEPT !.pc = "done",
                                                 !.value = <<memory_cache[DiskKey].data>>]
                          ELSE [output[t] EXCEPT !.pc = "exists"], "get")

\* get, lines 152-153 and 174-176: cache_file.exists().
GetExists(t) ==
    /\ output[t].pc = "exists"
    /\ stats' = IF DiskKey \in DOMAIN cache_dir THEN stats
                ELSE [stats EXCEPT !.misses = @ + 1]
    /\ UNCHANGED <<memory_cache, cache_dir>>
    /\ DiskStep(t, IF DiskKey \in DOMAIN cache_dir
                   THEN [output[t] EXCEPT !.pc = "load"]
                   ELSE [output[t] EXCEPT !.pc = "done", !.observed = "absent"], "get")

\* get, lines 155-165: the file is opened and unpickled.  A file that is no
\* longer there, or does not unpickle, raises into the except clause; an
\* entry that has not expired is loaded into memory_cache and returned.
GetLoad(t) ==
    /\ output[t].pc = "load"
    /\ LET there == DiskKey \in DOMAIN cache_dir
           whole == there /\ Unpickles(cache_dir[DiskKey])
           entry == cache_dir[DiskKey].chunks[1].entry
           live == whole /\ ~_is_expired(entry, now)
       IN  /\ memory_cache' = IF live
                              THEN With(memory_cache, DiskKey,
                                        [entry EXCEPT !.hit_count = @ + 1,
                                                      !.last_accessed = now])
                              ELSE memory_cache
           /\ stats' = IF live THEN [stats EXCEPT !.hits = @ + 1] ELSE stats
           /\ UNCHANGED cache_dir
           /\ DiskStep(t, [output[t] EXCEPT
                             !.pc = IF live THEN "done"
                                    ELSE IF whole THEN "unlink_expired" ELSE "unlink_error",
                             !.observed = IF ~there THEN "gone"
                                          ELSE IF whole THEN "complete" ELSE "partial",
                             !.value = IF live THEN <<entry.data>> ELSE <<>>], "get")

\* get, lines 168-169: the expired file is unlinked; a file that is gone
\* raises into the except clause.
GetUnlinkExpired(t) ==
    /\ output[t].pc = "unlink_expired"
    /\ cache_dir' = Without(cache_dir, DiskKey)
    /\ stats' = IF DiskKey \in DOMAIN cache_dir
                THEN [stats EXCEPT !.evictions = @ + 1, !.misses = @ + 1]
                ELSE stats
    /\ UNCHANGED memory_cache
    /\ DiskStep(t, [output[t] EXCEPT !.pc = IF DiskKey \in DOMAIN cache_dir
                                            THEN "done" ELSE "unlink_error"], "get")

\* get, lines 170-176: the except clause unlinks the file and the get is a
\* miss; with no file to unlink, unlink raises FileNotFoundError out of get.
GetUnlinkError(t) ==
    /\ output[t].pc = "unlink_error"
    /\ cache_dir' = Without(cache_dir, DiskKey)
    /\ stats' = IF DiskKey \in DOMAIN cache_dir
                THEN [stats EXCEPT !.misses = @ + 1] ELSE stats
    /\ UNCHANGED memory_cache
    /\ DiskStep(t, [output[t] EXCEPT !.pc = "done",
                                     !.raised = DiskKey \notin DOMAIN cache_dir], "get")

\* invalidate, lines 231-238: the entry is removed from memory_cache.
InvalidateMemory(t) ==
    /\ output[t].pc = "start" /\ request[t].op = "invalidate"
    /\ memory_cache' = Without(memory_cache, DiskKey)
    /\ UNCHANGED <<cache_dir, stats>>
    /\ DiskStep(t, [output[t] EXCEPT !.pc = "inv_exists",
                                     !.value = <<DiskKey \in DOMAIN memory_cache>>],
                "invalidate")

\* invalidate, lines 241-249: cache_file.exists(), and the result when the
\* file is not there.
InvalidateExists(t) ==
    /\ output[t].pc = "inv_exists"
    /\ UNCHANGED <<memory_cache, cache_dir, stats>>
    /\ DiskStep(t, [output[t] EXCEPT !.pc = IF DiskKey \in DOMAIN cache_dir
                                            THEN "inv_unlink" ELSE "done"], "invalidate")

\* invalidate, lines 243-249: cache_file.unlink(), which raises when the
\* file has gone since the test.
InvalidateUnlink(t) ==
    /\ output[t].pc = "inv_unlink"
    /\ cache_dir' = Without(cache_dir, DiskKey)
    /\ UNCHANGED <<memory_cache, stats>>
    /\ DiskStep(t, [output[t] EXCEPT !.pc = "done", !.value = <<TRUE>>,
                                     !.raised = DiskKey \notin DOMAIN cache_dir],
                "invalidate")

DiskNext ==
    \E t \in DiskThreads :
        \/ SetMemory(t) \/ SetOpen(t) \/ SetOpenFails(t) \/ SetDump(t, 1) \/ SetDump(t, 2)
        \/ GetMemory(t) \/ GetExists(t) \/ GetLoad(t)
        \/ GetUnlinkExpired(t) \/ GetUnlinkError(t)
        \/ InvalidateMemory(t) \/ InvalidateExists(t) \/ InvalidateUnlink(t)

SpecDisk == DiskInit /\ [][DiskNext]_vars

AllDone == \A t \in DiskThreads : output[t].pc = "done"

SetPayloads == {request[t].data : t \in {u \in DiskThreads : request[u].op = "set"}}

\* C21 (as the specification states it): a get interleaved with a set for
\* the same key reads no file or a complete one, never a partly written one,
\* and once the sets and gets have finished (none of them having failed to
\* open the file) the directory holds a complete entry for the key whose
\* payload one of the sets wrote.
C21_NoPartialEntry ==
    /\ \A t \in DiskThreads : output[t].observed # "partial"
    /\ (/\ AllDone
        /\ SetPayloads # {}
        /\ \A t \in DiskThreads : request[t].op # "invalidate" /\ ~output[t].io_failed)
         => /\ DiskKey \in DOMAIN cache_dir
            /\ Unpickles(cache_dir[DiskKey])
            /\ cache_dir[DiskKey].chunks[1].entry.data \in SetPayloads

\* C22 (as the specification states it): a finished set has returned the
\* cache key, also when the file could not be written, and a finished get
\* has returned a hit or a miss, also when the file went away between the
\* existence test and the read: neither raises.
C22_DiskFailureContained ==
    \A t \in DiskThreads :
       output[t].pc = "done" =>
          /\ request[t].op = "set" => output[t].value = <<DiskKey>> /\ ~output[t].raised
          /\ request[t].op = "get" => ~output[t].raised

\* A finished set has returned the cache key and raised nothing.
SetReturnsKey ==
    \A t \in DiskThreads :
       (output[t].pc = "done" /\ request[t].op = "set")
          => output[t].value = <<DiskKey>> /\ ~output[t].raised

(***************************************************************************)
(* _generate_config_hash as a function of its input: two configurations    *)
(* are drawn, hashed, and one is stored in a new cache and looked up under *)
(* the other.                                                              *)
(***************************************************************************)
\* All orders of the elements of the sequence s.
RECURSIVE Perms(_)
Perms(s) ==
    IF s = <<>> THEN {<<>>}
    ELSE UNION {{<<s[i]>> \o q :
                    q \in Perms([j \in 1..(Len(s) - 1) |-> IF j < i THEN s[j] ELSE s[j + 1]])} :
                i \in DOMAIN s}

\* All sequences whose i-th element is drawn from sets[i].
RECURSIVE Choices(_)
Choices(sets) ==
    IF sets = <<>> THEN {<<>>}
    ELSE {<<x>> \o q : x \in Head(sets), q \in Choices(Tail(sets))}

\* Every way of inserting the keys of obj's dicts, at every depth.
RECURSIVE Reorderings(_)
Reorderings(obj) ==
    IF obj.t = "d"
    THEN UNION {{JDict([i \in DOMAIN p |-> <<p[i][1], vs[i]>>]) :
                    vs \in Choices([i \in DOMAIN p |-> Reorderings(p[i][2])])} :
                p \in Perms(obj.v)}
    ELSE IF obj.t = "l"
    THEN {JList(vs) : vs \in Choices([i \in DOMAIN obj.v |-> Reorderings(obj.v[i])])}
    ELSE {obj}

BaseConfig(kwtext, seed) ==
    JDict(<< <<"keywords", JList(<< JDict(<< <<"text", JStr(kwtext)>>,
                                             <<"bid", JNum(500)>> >>) >>)>>,
             <<"campaign_context", JDict(<< <<"goal", JStr("sales")>>,
                                            <<"test", JStr("true")>> >>)>>,
             <<"seed", JNum(seed)>> >>)

HashInputs == Reorderings(BaseConfig("plumber", 12345))
                \cup Reorderings(BaseConfig("dentist", 12345))

HashIdle == UNCHANGED <<cacheVars, svcVars, aucVars, procVars>>

HashInit ==
    /\ cfg1 \in HashInputs
    /\ cfg2 \in HashInputs
    /\ keys = <<>>
    /\ CacheInit
    /\ cache_enabled = TRUE
    /\ calls = <<>>
    /\ ads = <<>>
    /\ winners = <<>>
    /\ salt = <<>>
    /\ output = <<>>
    /\ request = <<>>
    /\ rng = <<>>

HashBoth ==
    /\ keys = <<>>
    /\ keys' = <<_generate_config_hash(cfg1), _generate_config_hash(cfg2)>>
    /\ ret' = [op |-> "hash"]
    /\ UNCHANGED <<cfg1, cfg2>>
    /\ HashIdle

\* set under cfg1 in a new cache, then get under cfg2.
SetThenGet ==
    /\ ret.op # "set_get"
    /\ LET r == get(set(NewCache(NoEntries), cfg1, "R1", 0, 0).cache, cfg2, 0)
       IN  ret' = [op |-> "set_get", value |-> r.value, tier |-> r.tier]
    /\ UNCHANGED hashVars
    /\ HashIdle

HashNext == HashBoth \/ SetThenGet

SpecHash == HashInit /\ [][HashNext]_vars

\* The two values differ at most in the order in which dict keys were inserted.
RECURSIVE SameContent(_, _)
SameContent(a, b) ==
    /\ a.t = b.t
    /\ a.t = "a" => (a.v[1] = b.v[1] /\ a.v[2] = b.v[2])
    /\ a.t = "l" => /\ Len(a.v) = Len(b.v)
                    /\ \A i \in DOMAIN a.v : SameContent(a.v[i], b.v[i])
    /\ a.t = "d" => /\ Len(a.v) = Len(b.v)
                    /\ \A i \in DOMAIN a.v : \E j \in DOMAIN b.v :
                          a.v[i][1] = b.v[j][1] /\ SameContent(a.v[i][2], b.v[j][2])

\* C3: two configurations that differ only in the insertion order of dict
\* keys, at any depth and inside lists too, get the same cache key, and a
\* set under one is hit by a get under the other.
C3_KeyOrderInvariant ==
    SameContent(cfg1, cfg2)
      => /\ keys # <<>> => keys[1] = keys[2]
         /\ ret.op = "set_get" => ret.value = <<"R1">>

\* Two configurations whose keys are ordered differently at the top level, in
\* the nested map and in the map inside the list, hashed and looked up.
C3_Witness ==
    /\ SameContent(cfg1, cfg2)
    /\ cfg1.v[1][1] # cfg2.v[1][1]
    /\ \E i \in DOMAIN cfg1.v, j \in DOMAIN cfg2.v :
          /\ cfg1.v[i][1] = "keywords" /\ cfg2.v[j][1] = "keywords"
          /\ cfg1.v[i][2].v[1].v[1][1] # cfg2.v[j][2].v[1].v[1][1]
    /\ \E i \in DOMAIN cfg1.v, j \in DOMAIN cfg2.v :
          /\ cfg1.v[i][1] = "campaign_context" /\ cfg2.v[j][1] = "campaign_context"
          /\ cfg1.v[i][2].v[1][1] # cfg2.v[j][2].v[1][1]
    /\ keys # <<>>
    /\ keys[1] = keys[2]
    /\ ret.op = "set_get"
    /\ ret.value = <<"R1">>

(***************************************************************************)
(* The auction engine (enhanced_auction.run_auction; auction.run_auction   *)
(* is the same without match_type).  A bid and a cpc are in cents, an ad   *)
(* rank in cents x quality score, so the floor MIN_AD_RANK = 1.0 is 100.   *)
(***************************************************************************)
MIN_AD_RANK == 100

MAX_POSITION == 10

calculate_ad_rank(bid, quality_score) == bid * quality_score

\* round(n / d, 0) for n >= 0, d > 0: to the nearest integer, a tie to the
\* even one, as Python's round does on the exact value.
RoundDiv(n, d) ==
    LET q == n \div d
        r == n % d
    IN  IF 2 * r < d THEN q
        ELSE IF 2 * r > d THEN q + 1
        ELSE IF q % 2 = 0 THEN q ELSE q + 1

\* sorted(ads, key = ad_rank, reverse = True): descending, and stable (equal
\* ranks keep their input order).
RECURSIVE SortedByRankDesc(_)
SortedByRankDesc(xs) ==
    IF xs = <<>> THEN <<>>
    ELSE LET front == SortedByRankDesc(SubSeq(xs, 1, Len(xs) - 1))
             x == xs[Len(xs)]
             \* x goes after every element whose rank is >= its own
             n == Cardinality({i \in DOMAIN front : front[i].ad_rank >= x.ad_rank})
         IN  SubSeq(front, 1, n) \o <<x>> \o SubSeq(front, n + 1, Len(front))

\* A plausible slip: sorted ascending and then reversed, which reverses the
\* input order of equal ranks.
RECURSIVE SortedAscReversed(_)
SortedAscReversed(xs) ==
    IF xs = <<>> THEN <<>>
    ELSE LET front == SortedAscReversed(SubSeq(xs, 1, Len(xs) - 1))
             x == xs[Len(xs)]
             n == Cardinality({i \in DOMAIN front : front[i].ad_rank > x.ad_rank})
         IN  SubSeq(front, 1, n) \o <<x>> \o SubSeq(front, n + 1, Len(front))

WithAdRank(xs) ==
    [i \in DOMAIN xs |->
        [keyword |-> xs[i].keyword, match_type |-> xs[i].match_type, bid |-> xs[i].bid,
         quality_score |-> xs[i].quality_score,
         ad_rank |-> calculate_ad_rank(xs[i].bid, xs[i].quality_score)]]

\* A plausible slip: the floor test written as "above zero".
EligiblePositive(sorted_ads) == SelectSeq(sorted_ads, LAMBDA ad : ad.ad_rank > 0)

Eligible(sorted_ads) == SelectSeq(sorted_ads, LAMBDA ad : ad.ad_rank >= MIN_AD_RANK)

\* A plausible slip: every winner is charged against the floor, never against
\* the participant below.
AssignPositionsFloorPrice(eligible_ads) ==
    [position \in 1..Min(Len(eligible_ads), MAX_POSITION) |->
        LET ad == eligible_ads[position]
        IN  [keyword |-> ad.keyword, match_type |-> ad.match_type, position |-> position,
             ad_rank |-> ad.ad_rank,
             cpc |-> RoundDiv(MIN_AD_RANK + ad.quality_score, ad.quality_score),
             quality_score |-> ad.quality_score, bid |-> ad.bid]]

\* The loop that assigns positions and prices to eligible_ads[:MAX_POSITION].
AssignPositions(eligible_ads) ==
    [position \in 1..Min(Len(eligible_ads), MAX_POSITION) |->
        LET ad == eligible_ads[position]
            cpc == IF position < Len(eligible_ads)
                   THEN RoundDiv(eligible_ads[position + 1].ad_rank + ad.quality_score,
                                 ad.quality_score)
                   ELSE RoundDiv(MIN_AD_RANK + ad.quality_score, ad.quality_score)
        IN  [keyword |-> ad.keyword, match_type |-> ad.match_type, position |-> position,
             ad_rank |-> ad.ad_rank, cpc |-> cpc, quality_score |-> ad.quality_score,
             bid |-> ad.bid]]

RunAuctionTiesReversed(xs, seed) == AssignPositions(Eligible(SortedAscReversed(WithAdRank(xs))))

\* run_auction(ads, seed): the winners.  The seed only reseeds the generator.
run_auction(xs, seed) == AssignPositions(Eligible(SortedByRankDesc(WithAdRank(xs))))

(***************************************************************************)
(* run_auction as a function of its input: a list of participants is       *)
(* built and auctioned.  The first MaxVaried participants are drawn freely *)
(* from AdTypes; a longer list repeats its last participant's bid and      *)
(* quality score (a crowded auction).  The i-th participant is named i.    *)
(***************************************************************************)
MaxAds == 11

MaxVaried == 3

\* ranks 8000, 8000 (a tie of different bids), 4000, 100 (the floor), 50 (below
\* it) and 0 (a quality score of 0)
AdTypes == {[bid |-> 1000, quality_score |-> 8, match_type |-> "exact"],
            [bid |-> 2000, quality_score |-> 4, match_type |-> "phrase"],
            [bid |-> 500, quality_score |-> 8, match_type |-> "broad"],
            [bid |-> 10, quality_score |-> 10, match_type |-> "phrase"],
            [bid |-> 10, quality_score |-> 5, match_type |-> "phrase"],
            [bid |-> 1000, quality_score |-> 0, match_type |-> "exact"]}

AuctionIdle == UNCHANGED <<cacheVars, svcVars, hashVars, procVars>>

AuctionInit ==
    /\ ads = <<>>
    /\ winners = <<>>
    /\ CacheInit
    /\ cache_enabled = TRUE
    /\ calls = <<>>
    /\ cfg1 = JStr("")
    /\ cfg2 = JStr("")
    /\ keys = <<>>
    /\ salt = <<>>
    /\ output = <<>>
    /\ request = <<>>
    /\ rng = <<>>

AddAd(ty) ==
    /\ Len(ads) < MaxAds
    /\ ret.op # "run_auction"
    /\ Len(ads) >= MaxVaried
          => (ty.bid = ads[Len(ads)].bid /\ ty.quality_score = ads[Len(ads)].quality_score)
    /\ ads' = Append(ads, [keyword |-> Len(ads) + 1, match_type |-> ty.match_type,
                           bid |-> ty.bid, quality_score |-> ty.quality_score])
    /\ ret' = [op |-> "add_ad"]
    /\ UNCHANGED winners
    /\ AuctionIdle

RunAuction ==
    /\ ret.op # "run_auction"
    /\ winners' = run_auction(ads, 12345)
    /\ ret' = [op |-> "run_auction"]
    /\ UNCHANGED ads
    /\ AuctionIdle

AuctionNext == (\E ty \in AdTypes : AddAd(ty)) \/ RunAuction

SpecAuction == AuctionInit /\ [][AuctionNext]_vars

\* The input indices of the participants at or above the floor.
EligibleIdx == {i \in DOMAIN ads : ads[i].bid * ads[i].quality_score >= MIN_AD_RANK}

\* C10: the winners take the positions 1..k, k = min(number of eligible
\* participants, MAX_POSITION); each is an input participant with ad_rank =
\* bid x quality_score; ad ranks do not increase down the positions; equal
\* ranks keep their input order; no participant left out outranks a winner.
C10_StableRankOrder ==
    ret.op = "run_auction" =>
      LET k == Min(Cardinality(EligibleIdx), MAX_POSITION)
      IN  /\ Len(winners) = k
          /\ \A p \in 1..k :
                /\ winners[p].position = p
                /\ winners[p].keyword \in EligibleIdx
                /\ winners[p].bid = ads[winners[p].keyword].bid
                /\ winners[p].quality_score = ads[winners[p].keyword].quality_score
                /\ winners[p].ad_rank = winners[p].bid * winners[p].quality_score
          /\ \A p \in 1..(k - 1) :
                /\ winners[p].ad_rank >= winners[p + 1].ad_rank
                /\ winners[p].ad_rank = winners[p + 1].ad_rank
                      => winners[p].keyword < winners[p + 1].keyword
          /\ \A i \in EligibleIdx \ {winners[p].keyword : p \in 1..k} :
                \A p \in 1..k :
                   \/ ads[i].bid * ads[i].quality_score < winners[p].ad_rank
                   \/ /\ ads[i].bid * ads[i].quality_score = winners[p].ad_rank
                      /\ winners[p].keyword < i

\* An auction of eleven eligible participants, the first three of them of
\* two tied ranks below a third: ten winners, the ties in input order.
C10_Witness ==
    /\ ret.op = "run_auction"
    /\ Cardinality(EligibleIdx) > MAX_POSITION
    /\ Len(winners) = MAX_POSITION
    /\ ads[1].bid * ads[1].quality_score < ads[2].bid * ads[2].quality_score
    /\ ads[2].bid # ads[3].bid
    /\ ads[2].bid * ads[2].quality_score = ads[3].bid * ads[3].quality_score
    /\ winners[1].keyword = 2
    /\ winners[2].keyword = 3

\* C11 (as the specification states it): no winner is charged more than its
\* own bid, a tie with the next participant and a winner at the floor included.
C11_CpcAtMostBid ==
    ret.op = "run_auction" => \A p \in DOMAIN winners : winners[p].cpc <= winners[p].bid

\* The rank the winner at position p is priced against: the next winner's, for
\* the last winner the best eligible participant that won no position, and
\* the floor when nobody eligible is below.
NextLowerRank(p) ==
    LET left == {ads[i].bid * ads[i].quality_score :
                    i \in EligibleIdx \ {winners[q].keyword : q \in DOMAIN winners}}
    IN  IF p < Len(winners) THEN winners[p + 1].ad_rank
        ELSE IF left # {} THEN CHOOSE r \in left : \A o \in left : o <= r
        ELSE MIN_AD_RANK

\* C12: every winner pays the rank of the next lower eligible participant
\* divided by its own quality score plus one cent, the last eligible one pays
\* the floor rank divided by its quality score plus one cent, rounded to cents.
C12_SecondPrice ==
    ret.op = "run_auction" =>
      \A p \in DOMAIN winners :
         winners[p].cpc = RoundDiv(NextLowerRank(p) + winners[p].quality_score,
                                   winners[p].quality_score)

\* Ranks 80 (quality score 8) and 40: the first pays 5.01; and a tenth winner
\* priced against an eleventh eligible participant.
C12_Witness ==
    /\ ret.op = "run_auction"
    /\ \/ /\ Len(ads) = 2
          /\ ads[1].bid * ads[1].quality_score = 4000
          /\ ads[2].bid = 1000 /\ ads[2].quality_score = 8
          /\ winners[1].keyword = 2
          /\ winners[1].cpc = 501
          /\ winners[2].cpc = 14
       \/ /\ Len(winners) = MAX_POSITION
          /\ Cardinality(EligibleIdx) > MAX_POSITION
          /\ winners[MAX_POSITION].cpc > 14

\* C13: every winner is a participant at or above the floor and is priced
\* against a rank at or above the floor; a list with no participant at or
\* above the floor (the empty list, a quality score of 0) gives no winners.
C13_Eligibility ==
    ret.op = "run_auction" =>
      /\ \A p \in DOMAIN winners :
            /\ winners[p].ad_rank >= MIN_AD_RANK
            /\ winners[p].keyword \in EligibleIdx
            /\ NextLowerRank(p) >= MIN_AD_RANK
            /\ winners[p].cpc >= RoundDiv(MIN_AD_RANK + winners[p].quality_score,
                                          winners[p].quality_score)
      /\ EligibleIdx = {} => winners = <<>>

\* An auction whose participants are all below the floor, one of them with a
\* quality score of 0, ends with no winners.
C13_Witness ==
    /\ ret.op = "run_auction"
    /\ Len(ads) >= 2
    /\ \E i \in DOMAIN ads : ads[i].quality_score = 0
    /\ \E i \in DOMAIN ads : ads[i].bid * ads[i].quality_score = 50
    /\ EligibleIdx = {}
    /\ winners = <<>>

(***************************************************************************)
(* The volume engine (volume_estimation.VolumeEstimationEngine).  A keyword *)
(* text is an atom here, so what the code reads off the text itself (its   *)
(* lower-cased, trimmed form, its length, its number of words, the         *)
(* substring tests) is tabulated per text in TextFacts.                    *)
(***************************************************************************)
\* Three rows of the static table: monthly searches, competition, average cpc.
static_volume_db ==
    [k \in {"plumber", "electrician", "real estate investment"} |->
        CASE k = "plumber" ->
               [monthly_searches |-> 450000, competition |-> "High", avg_cpc |-> 850]
          [] k = "electrician" ->
               [monthly_searches |-> 320000, competition |-> "High", avg_cpc |-> 1230]
          [] k = "real estate investment" ->
               [monthly_searches |-> 18000, competition |-> "Low", avg_cpc |-> 1950]]

TextFacts ==
    [k \in {"plumber", "Plumber", " plumber ", "electrician", "real estate investment",
            "fix leaky tap", "drain repair", "   ", ""} |->
        CASE k = " plumber " ->
               [normalized |-> "plumber", len |-> 9, words |-> 1,
                high_volume_word |-> FALSE, business_term |-> FALSE]
          [] k = "   " ->
               [normalized |-> "", len |-> 3, words |-> 0,
                high_volume_word |-> FALSE, business_term |-> FALSE]
          [] k = "" ->
               [normalized |-> "", len |-> 0, words |-> 0,
                high_volume_word |-> FALSE, business_term |-> FALSE]
          [] k = "electrician" ->
               [normalized |-> "electrician", len |-> 11, words |-> 1,
                high_volume_word |-> FALSE, business_term |-> FALSE]
          [] k = "plumber" ->
               [normalized |-> "plumber", len |-> 7, words |-> 1,
                high_volume_word |-> FALSE, business_term |-> FALSE]
          [] k = "Plumber" ->
               [normalized |-> "plumber", len |-> 7, words |-> 1,
                high_volume_word |-> FALSE, business_term |-> FALSE]
          [] k = "real estate investment" ->
               [normalized |-> "real estate investment", len |-> 22, words |-> 3,
                high_volume_word |-> TRUE, business_term |-> FALSE]
          [] k = "fix leaky tap" ->
               [normalized |-> "fix leaky tap", len |-> 13, words |-> 3,
                high_volume_word |-> FALSE, business_term |-> FALSE]
          [] k = "drain repair" ->
               [normalized |-> "drain repair", len |-> 12, words |-> 2,
                high_volume_word |-> FALSE, business_term |-> FALSE]]

\* keyword.lower().strip()
normalized_keyword(keyword) == TextFacts[keyword].normalized

\* in tenths
match_type_modifiers(match_type) ==
    CASE match_type = "exact" -> 10
      [] match_type = "phrase" -> 7
      [] match_type = "broad" -> 4
      [] OTHER -> 5

\* in hundredths; an unknown location gets the 'default' entry
geo_modifiers(geo) ==
    CASE geo = "US" -> 100
      [] geo = "CA" -> 15
      [] geo = "UK" -> 12
      [] geo = "AU" -> 8
      [] geo = "DE" -> 10
      [] geo = "FR" -> 8
      [] geo = "IT" -> 6
      [] geo = "ES" -> 5
      [] geo = "EU" -> 25
      [] OTHER -> 5

length_modifiers(len) ==
    CASE len = 1 -> 500000
      [] len = 2 -> 200000
      [] len = 3 -> 100000
      [] len = 4 -> 80000
      [] len = 5 -> 60000
      [] len = 6 -> 40000
      [] len = 7 -> 25000
      [] len = 8 -> 15000
      [] len = 9 -> 10000
      [] len = 10 -> 8000
      [] OTHER -> 5000

\* int(base_volume) after the x2.0, x1.5 and x0.3 / x0.7 adjustments; the
\* brand adjustment never applies to a lower-cased text.
_estimate_volume_from_keyword(keyword) ==
    LET f == TextFacts[keyword]
        high == IF f.high_volume_word THEN 2 ELSE 1
        business == IF f.business_term THEN 3 ELSE 2
        tail == IF f.words > 2 THEN 3 ELSE IF f.words = 2 THEN 7 ELSE 10
    IN  (length_modifiers(f.len) * high * business * tail) \div 20

get_volume_data(keyword) ==
    LET k == normalized_keyword(keyword)
    IN  IF k \in DOMAIN static_volume_db THEN <<static_volume_db[k]>> ELSE <<>>

\* keyword[0] of the empty text (the brand test of
\* _estimate_volume_from_keyword) raises IndexError.
IndexErrorAt(keyword) == TextFacts[keyword].len = 0

\* (monthly_searches / 30) * match_modifier * geo_modifier is computed in
\* binary floating point: 320000 / 30 is rounded, and with these modifiers
\* the product of a whole exact value comes out just under it.
FloatBelow(monthly_searches, match_type, geo) ==
    /\ monthly_searches = 320000
    /\ match_type \in {"exact", "phrase"}
    /\ geo \in {"CA", "UK", "IT"}

estimate_daily_auctions(keyword, match_type, geo) ==
    LET k == normalized_keyword(keyword)
        static == k \in DOMAIN static_volume_db
        monthly_searches == IF static THEN static_volume_db[k].monthly_searches
                            ELSE _estimate_volume_from_keyword(k)
        product == monthly_searches * match_type_modifiers(match_type) * geo_modifiers(geo)
        \* int((monthly_searches / 30) * match_modifier * geo_modifier)
        daily == IF product % 30000 = 0 /\ FloatBelow(monthly_searches, match_type, geo)
                 THEN product \div 30000 - 1
                 ELSE product \div 30000
    IN  IF ~static /\ IndexErrorAt(k) THEN [raised |-> "IndexError"]
        ELSE [keyword |-> keyword, match_type |-> match_type,
              daily_auctions |-> Max(1, daily),
              volume_source |-> IF static THEN "static" ELSE "estimated",
              confidence |-> IF static THEN 90 ELSE 60]

get_competition_level(keyword) ==
    LET volume_data == get_volume_data(keyword)
        f == TextFacts[keyword]
    IN  IF volume_data # <<>> THEN volume_data[1].competition
        ELSE IF f.words = 1 /\ f.len <= 6 THEN "High"
        ELSE IF f.words >= 3 THEN "Low"
        ELSE "Medium"

\* The average cpc of get_estimated_cpc, in tenths of a cent.
get_estimated_cpc(keyword, match_type) ==
    LET volume_data == get_volume_data(keyword)
        competition == get_competition_level(keyword)
        base_avg == IF volume_data # <<>> THEN volume_data[1].avg_cpc
                    ELSE IF competition = "High" THEN 1500
                    ELSE IF competition = "Medium" THEN 800
                    ELSE 500
        cpc_multiplier == IF match_type = "exact" THEN 12
                          ELSE IF match_type = "phrase" THEN 10
                          ELSE 8
    IN  base_avg * cpc_multiplier

(***************************************************************************)
(* estimate_daily_auctions as a function of its input: a keyword text, a   *)
(* match type and a geo are drawn and the estimate is made once.           *)
(***************************************************************************)
VolumeKeywords == {"plumber", "Plumber", " plumber ", "electrician", "real estate investment",
                   "fix leaky tap", "drain repair", "   "}

Geos == {"US", "CA", "UK", "AU", "DE", "FR", "IT", "ES", "EU", "ZZ"}

VolumeIdle == UNCHANGED <<cacheVars, svcVars, hashVars, aucVars, salt, rng, request>>

VolumeInit ==
    /\ request \in [keyword : VolumeKeywords, match_type : {"exact", "phrase", "broad"},
                     geo : Geos]
    /\ output = <<>>
    /\ rng = <<>>
    /\ ads = <<>>
    /\ winners = <<>>
    /\ CacheInit
    /\ cache_enabled = TRUE
    /\ calls = <<>>
    /\ cfg1 = JStr("")
    /\ cfg2 = JStr("")
    /\ keys = <<>>
    /\ salt = <<>>

EstimateDailyAuctions ==
    /\ ret.op = "init"
    /\ output' = estimate_daily_auctions(request.keyword, request.match_type, request.geo)
    /\ ret' = [op |-> "estimate_daily_auctions"]
    /\ VolumeIdle

VolumeNext == EstimateDailyAuctions

SpecVolume == VolumeInit /\ [][VolumeNext]_vars

InStaticTable == normalized_keyword(request.keyword) \in DOMAIN static_volume_db

\* C18 (as the specification states it): for a keyword of the static table,
\* daily_auctions = max(1, round((monthly_searches / 30) x m x g)), m = 1.0 /
\* 0.7 / 0.4 by match type, g the geo's modifier, 0.05 for an unknown geo.
C18_RoundedDailyAuctions ==
    (ret.op = "estimate_daily_auctions" /\ InStaticTable) =>
       LET monthly == static_volume_db[normalized_keyword(request.keyword)].monthly_searches
           m == CASE request.match_type = "exact" -> 10
                  [] request.match_type = "phrase" -> 7
                  [] request.match_type = "broad" -> 4
           g == IF request.geo = "ZZ" THEN 5 ELSE geo_modifiers(request.geo)
       IN  output.daily_auctions = Max(1, RoundDiv(monthly * m * g, 30000))

\* The estimate is never more than one below the rounded value.
DailyAuctionsTruncated ==
    (ret.op = "estimate_daily_auctions" /\ InStaticTable) =>
       LET monthly == static_volume_db[normalized_keyword(request.keyword)].monthly_searches
           exact == monthly * match_type_modifiers(request.match_type)
                       * geo_modifiers(request.geo)
       IN  /\ output.daily_auctions >= 1
           /\ output.daily_auctions <= Max(1, RoundDiv(exact, 30000))
           /\ output.daily_auctions >= Max(1, RoundDiv(exact, 30000)) - 1

\* C19 (as the specification states it): the estimate of any non-empty text
\* is returned without raising, with daily_auctions >= 1, source 'static' and
\* confidence 0.9 exactly when the trimmed, lower-cased text is in the table,
\* and otherwise source 'estimated' and confidence 0.6.
C19_EstimateNeverRaises ==
    ret.op = "estimate_daily_auctions" =>
       /\ "raised" \notin DOMAIN output
       /\ output.daily_auctions >= 1
       /\ IF InStaticTable
          THEN output.volume_source = "static" /\ output.confidence = 90
          ELSE output.volume_source = "estimated" /\ output.confidence = 60

\* The same for every text whose trimmed form is not empty.
EstimateOfNonBlank ==
    (ret.op = "estimate_daily_auctions" /\ normalized_keyword(request.keyword) # "") =>
       /\ "raised" \notin DOMAIN output
       /\ output.daily_auctions >= 1
       /\ IF InStaticTable
          THEN output.volume_source = "static" /\ output.confidence = 90
          ELSE output.volume_source = "estimated" /\ output.confidence = 60

(***************************************************************************)
(* numpy's global generator.  Its state is the seed it was last seeded     *)
(* with and the number of draws made since; a draw is a fixed function of  *)
(* the two, at a resolution of RandMod values.                             *)
(***************************************************************************)
RandMod == 1024

np_random_seed(seed) == [seed |-> seed, n |-> 0]

Rand(seed, n) == ((seed % 9973) * 131 + n * 7919 + 12345) % RandMod

\* A plausible slip: the upper end taken as inclusive.
RandintInclusive(lo, hi, r) == lo + (r % (hi - lo + 1))

\* np.random.randint(lo, hi): lo <= result < hi
randint(lo, hi, r) == lo + (r % (hi - lo))

CompetitorNames == <<"competitor_0", "competitor_1", "competitor_2", "competitor_3",
                     "competitor_4", "competitor_5", "competitor_6", "competitor_7",
                     "competitor_8">>

competitor_counts(competition_level) ==
    CASE competition_level = "High" -> <<3, 8>>
      [] competition_level = "Medium" -> <<2, 5>>
      [] competition_level = "Low" -> <<1, 3>>
      [] OTHER -> <<2, 5>>

_generate_competitor_ads(keyword, match_type, geo, seed) ==
    LET counts == competitor_counts(get_competition_level(keyword))
        num_competitors == randint(counts[1], counts[2] + 1, Rand(seed, 0))
        avg_cpc == get_estimated_cpc(keyword, match_type)
        \* bid_range, in hundredths of a cent
        lo == avg_cpc * 7
        hi == avg_cpc * 13
    IN  [i \in 1..num_competitors |->
            [keyword |-> CompetitorNames[i],
             match_type |-> match_type,
             \* round(np.random.uniform(lo, hi), 2)
             bid |-> RoundDiv(lo * RandMod + Rand(seed, 2 * i - 1) * (hi - lo), 100 * RandMod),
             quality_score |-> randint(5, 10, Rand(seed, 2 * i))]]

(***************************************************************************)
(* _generate_competitor_ads as a function of its input: a call is drawn    *)
(* from the keywords, match types and seeds below and made once; the       *)
(* generator is left as the call leaves it.                                *)
(***************************************************************************)
SeedBase == 12345

MaxSeedOffset == 1023

CompKeywords == {"plumber", "electrician", "real estate investment", "fix leaky tap",
                 "drain repair"}

MatchTypes == {"exact", "phrase", "broad"}

CompIdle == UNCHANGED <<cacheVars, svcVars, hashVars, aucVars, salt>>

CompInit ==
    /\ request \in [keyword : CompKeywords, match_type : MatchTypes, geo : {"US"},
                     seed : SeedBase..(SeedBase + MaxSeedOffset)]
    /\ output = <<>>
    /\ rng = np_random_seed(0)
    /\ ads = <<>>
    /\ winners = <<>>
    /\ CacheInit
    /\ cache_enabled = TRUE
    /\ calls = <<>>
    /\ cfg1 = JStr("")
    /\ cfg2 = JStr("")
    /\ keys = <<>>
    /\ salt = <<>>

GenerateCompetitorAds ==
    /\ ret.op = "init"
    /\ \E competitors \in {_generate_competitor_ads(request.keyword, request.match_type,
                                                    request.geo, request.seed)} :
          /\ output' = competitors
          /\ rng' = [seed |-> request.seed, n |-> 1 + 2 * Len(competitors)]
    /\ ret' = [op |-> "_generate_competitor_ads"]
    /\ UNCHANGED request
    /\ CompIdle

CompNext == GenerateCompetitorAds

SpecCompetitors == CompInit /\ [][CompNext]_vars

\* The bid range of the request's keyword, in hundredths of a cent.
BidRange ==
    LET avg_cpc == get_estimated_cpc(request.keyword, request.match_type)
    IN  <<avg_cpc * 7, avg_cpc * 13>>

CountAndScoresInRange ==
    LET counts == competitor_counts(get_competition_level(request.keyword))
    IN  /\ Len(output) >= counts[1]
        /\ Len(output) <= counts[2]
        /\ \A i \in DOMAIN output :
              /\ output[i].quality_score \in 5..9
              /\ output[i].match_type = request.match_type

\* C14 (as the claim states it): the count is in the range of the competition
\* level, every quality score is in 5..9 and every returned bid lies in
\* [0.7 x avg_cpc, 1.3 x avg_cpc].
C14_BidsInsideRange ==
    ret.op = "_generate_competitor_ads" =>
      /\ CountAndScoresInRange
      /\ \A i \in DOMAIN output :
            /\ output[i].bid * 100 >= BidRange[1]
            /\ output[i].bid * 100 <= BidRange[2]

\* C14 (as the code has it): the count is in the range of the competition
\* level, every quality score is in 5..9, and every returned bid is a draw
\* from [0.7 x avg_cpc, 1.3 x avg_cpc] rounded to cents, so it lies within
\* half a cent of that range.
C14_BidsWithinHalfCent ==
    ret.op = "_generate_competitor_ads" =>
      /\ CountAndScoresInRange
      /\ \A i \in DOMAIN output :
            /\ output[i].bid * 100 >= BidRange[1] - 50
            /\ output[i].bid * 100 <= BidRange[2] + 50

\* Competitors of 'electrician' at exact match (range 10.332 .. 19.188), one
\* of them with a returned bid off the range.
C14_Witness ==
    /\ ret.op = "_generate_competitor_ads"
    /\ request.keyword = "electrician"
    /\ request.match_type = "exact"
    /\ Len(output) >= 3
    /\ \E i \in DOMAIN output :
          output[i].bid * 100 < BidRange[1] \/ output[i].bid * 100 > BidRange[2]

\* The estimate that keyword_auction_data holds for a text after the first
\* loop: the one of the last keyword with that text.
keyword_auction_data(keywords, geo, text) ==
    LET last == CHOOSE i \in DOMAIN keywords :
                   /\ keywords[i].text = text
                   /\ \A j \in DOMAIN keywords : keywords[j].text = text => j <= i
    IN  estimate_daily_auctions(text, keywords[last].match_type, geo)

\* What the auction auction_id of the keyword kw adds to the results.
our_results(kw, geo, seed, auction_id) ==
    LET own == [keyword |-> kw.text, match_type |-> kw.match_type, bid |-> kw.bid,
                quality_score |-> kw.quality_score]
        competitors == _generate_competitor_ads(kw.text, kw.match_type, geo, seed + auction_id)
    IN  SelectSeq(run_auction(<<own>> \o competitors, seed + auction_id),
                  LAMBDA w : w.keyword = kw.text)

RECURSIVE KeywordAuctions(_, _, _, _)
KeywordAuctions(kw, geo, seed, keyword_auctions) ==
    IF keyword_auctions = 0 THEN <<>>
    ELSE KeywordAuctions(kw, geo, seed, keyword_auctions - 1)
             \o our_results(kw, geo, seed, keyword_auctions - 1)

simulate_volume_based_auctions(keywords, geo, campaign_context, seed) ==
    LET Upto(n) ==
          IF n = 0 THEN <<>>
          ELSE LET kw == keywords[n]
               IN  KeywordAuctions(kw, geo, seed,
                                   keyword_auction_data(keywords, geo, kw.text).daily_auctions)
        RECURSIVE All(_)
        All(n) == IF n = 0 THEN <<>> ELSE All(n - 1) \o Upto(n)
    IN  All(Len(keywords))

(***************************************************************************)
(* Two simulation runs on two threads of one process.  Each run holds one  *)
(* keyword and makes one auction of it (auction_id 0): it generates the    *)
(* competitors, one generator call per step, and runs the auction.  The    *)
(* generator is numpy's global one, shared by the threads; a thread's      *)
(* locals are output[t].                                                   *)
(***************************************************************************)
Threads == {1, 2}

ThreadKeywords == {[text |-> "fix leaky tap", match_type |-> "phrase", bid |-> 600,
                    quality_score |-> 7],
                   [text |-> "drain repair", match_type |-> "exact", bid |-> 900,
                    quality_score |-> 6]}

MaxThreadSeedOffset == 1

ThreadCalls == [kw : ThreadKeywords, geo : {"US"},
                seed : SeedBase..(SeedBase + MaxThreadSeedOffset)]

ThreadIdle == UNCHANGED <<cacheVars, svcVars, hashVars, aucVars, salt, request>>

ThreadInit ==
    /\ request \in [Threads -> ThreadCalls]
    /\ output = [t \in Threads |->
                   [pc |-> "seed", num_competitors |-> 0, competitor_bid |-> 0,
                    competitors |-> <<>>, results |-> <<>>, alone |-> TRUE]]
    /\ rng = np_random_seed(0)
    /\ ads = <<>>
    /\ winners = <<>>
    /\ CacheInit
    /\ cache_enabled = TRUE
    /\ calls = <<>>
    /\ cfg1 = JStr("")
    /\ cfg2 = JStr("")
    /\ keys = <<>>
    /\ salt = <<>>

\* Thread u is inside its call.
Inside(u) == output[u].pc \notin {"seed", "done"}

\* Thread t takes a step that leaves its locals as o and the generator as g.
\* A step taken while another thread is inside its call marks both calls as
\* overlapped.
ThreadStep(t, o, g, op) ==
    /\ output' = [u \in Threads |->
                    IF u = t
                    THEN [o EXCEPT !.alone = output[t].alone
                                                /\ \A v \in Threads \ {t} : ~Inside(v)]
                    ELSE [output[u] EXCEPT !.alone = @ /\ ~Inside(u)]]
    /\ rng' = g
    /\ ret' = [op |-> op]
    /\ ThreadIdle

\* np.random.seed(seed)
ThreadSeed(t) ==
    /\ output[t].pc = "seed"
    /\ ThreadStep(t, [output[t] EXCEPT !.pc = "count"], np_random_seed(request[t].seed), "seed")

\* num_competitors = np.random.randint(min_competitors, max_competitors + 1)
ThreadCount(t) ==
    /\ output[t].pc = "count"
    /\ LET counts == competitor_counts(get_competition_level(request[t].kw.text))
           num == randint(counts[1], counts[2] + 1, Rand(rng.seed, rng.n))
       IN  ThreadStep(t, [output[t] EXCEPT !.pc = "bid", !.num_competitors = num],
                      [rng EXCEPT !.n = @ + 1], "count")

\* competitor_bid = np.random.uniform(bid_range[0], bid_range[1])
ThreadBid(t) ==
    /\ output[t].pc = "bid"
    /\ LET avg_cpc == get_estimated_cpc(request[t].kw.text, request[t].kw.match_type)
           lo == avg_cpc * 7
           hi == avg_cpc * 13
           bid == RoundDiv(lo * RandMod + Rand(rng.seed, rng.n) * (hi - lo), 100 * RandMod)
       IN  ThreadStep(t, [output[t] EXCEPT !.pc = "qs", !.competitor_bid = bid],
                      [rng EXCEPT !.n = @ + 1], "bid")

\* competitor_qs = np.random.randint(5, 10); competitors.append(...)
ThreadQs(t) ==
    /\ output[t].pc = "qs"
    /\ LET o == output[t]
           competitor == [keyword |-> CompetitorNames[Len(o.competitors) + 1],
                          match_type |-> request[t].kw.match_type,
                          bid |-> o.competitor_bid,
                          quality_score |-> randint(5, 10, Rand(rng.seed, rng.n))]
           last == Len(o.competitors) + 1 = o.num_competitors
       IN  ThreadStep(t, [o EXCEPT !.pc = IF last THEN "auction" ELSE "bid",
                                   !.competitors = Append(@, competitor)],
                      [rng EXCEPT !.n = @ + 1], "qs")

\* winners = run_auction(ads, seed); our_results = the keyword's own winners
ThreadAuction(t) ==
    /\ output[t].pc = "auction"
    /\ LET kw == request[t].kw
           own == [keyword |-> kw.text, match_type |-> kw.match_type, bid |-> kw.bid,
                   quality_score |-> kw.quality_score]
           won == run_auction(<<own>> \o output[t].competitors, request[t].seed)
       IN  ThreadStep(t, [output[t] EXCEPT !.pc = "done",
                                           !.results = SelectSeq(won, LAMBDA w : w.keyword = kw.text)],
                      np_random_seed(request[t].seed), "auction")

ThreadNext ==
    \E t \in Threads :
        ThreadSeed(t) \/ ThreadCount(t) \/ ThreadBid(t) \/ ThreadQs(t) \/ ThreadAuction(t)

SpecThreads == ThreadInit /\ [][ThreadNext]_vars

\* What thread t's run returns when it runs alone.
Sequential(t) ==
    LET c == request[t]
    IN  [competitors |-> _generate_competitor_ads(c.kw.text, c.kw.match_type, c.geo, c.seed),
         results |-> our_results(c.kw, c.geo, c.seed, 0)]

\* C15 (as the specification states it): however the steps of two concurrent
\* runs interleave, a finished run has the competitors and the auction
\* results it has when run alone.
C15_SameAsSequential ==
    \A t \in Threads :
       output[t].pc = "done" =>
          /\ output[t].competitors = Sequential(t).competitors
          /\ output[t].results = Sequential(t).results

\* A run whose call no other call overlapped has its sequential results.
C15_AloneSameAsSequential ==
    \A t \in Threads :
       (output[t].pc = "done" /\ output[t].alone) =>
          /\ output[t].competitors = Sequential(t).competitors
          /\ output[t].results = Sequential(t).results

(***************************************************************************)
(* The caching service (cached_simulation.CachedSimulationService) over    *)
(* the global simulation_cache.  A request is [keywords, geo,              *)
(* campaign_context, seed]; campaign_context is a JSON dict or JNone.      *)
(***************************************************************************)
JNone == JAtom(<<"null">>)

IsNone(x) == x.t = "a" /\ x.v = <<"null">>

\* Python's order on the keyword texts.
TextOrder == <<"Plumber", "drain repair", "electrician", "fix leaky tap", "plumber",
               "real estate investment">>

TextRank(text) == IndexOf(TextOrder, text)

\* sorted(keywords, key = lambda k: k['text']): ascending and stable.
RECURSIVE SortedByText(_)
SortedByText(keywords) ==
    IF keywords = <<>> THEN <<>>
    ELSE LET front == SortedByText(SubSeq(keywords, 1, Len(keywords) - 1))
             kw == keywords[Len(keywords)]
             n == Cardinality({i \in DOMAIN front : TextRank(front[i].text) <= TextRank(kw.text)})
         IN  SubSeq(front, 1, n) \o <<kw>> \o SubSeq(front, n + 1, Len(front))

\* A keyword as the dict the endpoints build (cached_simulate.py).
KeywordJson(kw) ==
    JDict(<< <<"text", JStr(kw.text)>>, <<"bid", JNum(kw.bid)>>,
             <<"quality_score", JNum(kw.quality_score)>>,
             <<"match_type", JStr(kw.match_type)>> >>)

_create_simulation_config(keywords, geo, campaign_context, seed) ==
    LET normalized_keywords == SortedByText(keywords)
    IN  JDict(<< <<"keywords", JList([i \in DOMAIN normalized_keywords |->
                                         KeywordJson(normalized_keywords[i])])>>,
                 <<"geo", JStr(geo)>>,
                 <<"campaign_context",
                   IF IsNone(campaign_context) THEN JDict(<<>>) ELSE campaign_context>>,
                 <<"seed", JNum(seed)>> >>)

\* The response to a cache hit: the cached dict with cache_hit overwritten
\* and cache_key, cached_at read back with .get (<<>> stands for None).
HitResponse(cached_result) == [cached_result EXCEPT !.cache_hit = TRUE]

\* The dict that run_cached_simulation builds from a fresh simulation.
SimulationResult(req, t) ==
    [results |-> simulate_volume_based_auctions(req.keywords, req.geo, req.campaign_context,
                                                req.seed),
     config |-> _create_simulation_config(req.keywords, req.geo, req.campaign_context,
                                          req.seed),
     cache_hit |-> FALSE, simulated_at |-> t, seed |-> req.seed, geo |-> req.geo,
     total_keywords |-> Len(req.keywords), cache_key |-> <<>>, cached_at |-> <<>>]

\* simulation_result['cache_key'] = cache_key; simulation_result['cached_at'] = now
WithCacheKey(simulation_result, cache_key, t) ==
    [simulation_result EXCEPT !.cache_key = <<cache_key>>, !.cached_at = <<t>>]

\* After cache_simulation_result: the dict handed to set is the one that then
\* receives cache_key and cached_at, so the memory entry (the same object)
\* has them and the pickled file has not.
Stored(stored, simulation_result, t) ==
    [cache |-> [stored.cache EXCEPT !.memory_cache[stored.value].data =
                                        WithCacheKey(simulation_result, stored.value, t)],
     response |-> WithCacheKey(simulation_result, stored.value, t),
     fresh |-> TRUE]

\* The miss path once the simulation has run: the result is stored when
\* caching is on, and returned.
StoreAndReturn(C, caching, simulation_result, cache_ttl_hours, t) ==
    IF caching
    THEN Stored(set(C, simulation_result.config, simulation_result, cache_ttl_hours, t),
                simulation_result, t)
    ELSE [cache |-> C, response |-> simulation_result, fresh |-> TRUE]

\* A slip: the fresh result is stored whether or not caching is on.
FreshRunAlwaysStores(C, enabled, req, use_cache, cache_ttl_hours, t) ==
    StoreAndReturn(C, TRUE, SimulationResult(req, t), cache_ttl_hours, t)

\* The miss path: a fresh simulation, stored when caching is on.
FreshRun(C, enabled, req, use_cache, cache_ttl_hours, t) ==
    StoreAndReturn(C, use_cache /\ enabled, SimulationResult(req, t), cache_ttl_hours, t)

\* A slip: the cache is never consulted.
RunIgnoresCache(C, enabled, req, use_cache, cache_ttl_hours, t) ==
    FreshRun(C, enabled, req, use_cache, cache_ttl_hours, t)

\* What follows the lookup: the cached dict on a hit, the miss path otherwise.
AfterLookup(looked, enabled, req, use_cache, cache_ttl_hours, t) ==
    IF looked.value # <<>>
    THEN [cache |-> looked.cache, response |-> HitResponse(looked.value[1]), fresh |-> FALSE]
    ELSE FreshRun(looked.cache, enabled, req, use_cache, cache_ttl_hours, t)

run_cached_simulation(C, enabled, req, use_cache, cache_ttl_hours, t) ==
    IF use_cache /\ enabled
    THEN AfterLookup(get(C, _create_simulation_config(req.keywords, req.geo,
                                                      req.campaign_context, req.seed), t),
                     enabled, req, use_cache, cache_ttl_hours, t)
    ELSE FreshRun(C, enabled, req, use_cache, cache_ttl_hours, t)

(***************************************************************************)
(* The service as a state machine: simulation requests, the cache          *)
(* management endpoints, the clock and restarts of the process.  calls is  *)
(* the log of the run_cached_simulation calls made since the cache was     *)
(* last invalidated, cleared or cleaned up.                                *)
(***************************************************************************)
MaxCalls == 2

LeakyTap(match_type) ==
    [text |-> "fix leaky tap", bid |-> 600, quality_score |-> 7, match_type |-> match_type]

DrainRepair(match_type) ==
    [text |-> "drain repair", bid |-> 900, quality_score |-> 6, match_type |-> match_type]

SimRequests ==
    {[keywords |-> <<LeakyTap("phrase")>>, geo |-> "CA", campaign_context |-> JNone,
      seed |-> 12345],
     [keywords |-> <<LeakyTap("exact"), DrainRepair("broad")>>, geo |-> "ES",
      campaign_context |-> JDict(<< <<"goal", JStr("sales")>> >>), seed |-> 12346]}

SimTTLs == {48}

SimIdle == UNCHANGED <<last_set, hashVars, aucVars, procVars>>

RunCachedSimulation(req, use_cache, cache_ttl_hours) ==
    /\ Len(calls) < MaxCalls
    /\ (use_cache /\ cache_enabled) => stats.total_requests < MaxRequests
    /\ \E r \in {run_cached_simulation(Self, cache_enabled, req, use_cache,
                                        cache_ttl_hours, now)} :
           /\ SetSelf(r.cache)
           /\ ret' = [op |-> "run_cached_simulation", request |-> req,
                      use_cache |-> use_cache, response |-> r.response, fresh |-> r.fresh]
           /\ calls' = Append(calls, [request |-> req, stored |-> use_cache /\ cache_enabled,
                                      cache_ttl_hours |-> cache_ttl_hours, at |-> now,
                                      response |-> r.response, fresh |-> r.fresh])
    /\ UNCHANGED <<now, cache_enabled>>
    /\ SimIdle

invalidate_cache(req) ==
    /\ SetSelf(invalidate(Self, _create_simulation_config(req.keywords, req.geo,
                                                          req.campaign_context, req.seed)).cache)
    /\ ret' = [op |-> "invalidate_cache"]
    /\ calls' = <<>>
    /\ UNCHANGED <<now, cache_enabled>>
    /\ SimIdle

clear_cache ==
    /\ SetSelf(clear(Self))
    /\ ret' = [op |-> "clear_cache"]
    /\ calls' = <<>>
    /\ UNCHANGED <<now, cache_enabled>>
    /\ SimIdle

cleanup_cache ==
    /\ SetSelf(cleanup(Self, now))
    /\ ret' = [op |-> "cleanup_cache"]
    /\ calls' = <<>>
    /\ UNCHANGED <<now, cache_enabled>>
    /\ SimIdle

enable_cache ==
    /\ ~cache_enabled
    /\ cache_enabled' = TRUE
    /\ ret' = [op |-> "enable_cache"]
    /\ UNCHANGED <<memory_cache, cache_dir, stats, now, calls>>
    /\ SimIdle

disable_cache ==
    /\ cache_enabled
    /\ cache_enabled' = FALSE
    /\ ret' = [op |-> "disable_cache"]
    /\ UNCHANGED <<memory_cache, cache_dir, stats, now, calls>>
    /\ SimIdle

SimNext ==
    \/ \E req \in SimRequests, use_cache \in BOOLEAN, ttl \in SimTTLs :
          RunCachedSimulation(req, use_cache, ttl)
    \/ \E req \in SimRequests : invalidate_cache(req)
    \/ clear_cache
    \/ cleanup_cache
    \/ enable_cache
    \/ disable_cache
    \/ Tick
    \/ Restart

SpecSim == Init /\ [][SimNext]_vars

(***************************************************************************)
(* The /cached-simulate endpoint (api/cached_simulate.py): the request     *)
(* model validates every keyword before the handler runs, and the handler  *)
(* turns an exception of the simulation into a 500 response.               *)
(***************************************************************************)
\* A slip: the Keyword model without its constraints.
KeywordUnconstrained(kw) == TRUE

\* api/simulate.py Keyword: match_type matches ^(exact|phrase|broad)$,
\* bid > 0, 1 <= quality_score <= 10.
KeywordAccepted(kw) ==
    /\ kw.match_type \in {"exact", "phrase", "broad"}
    /\ kw.bid > 0
    /\ kw.quality_score >= 1
    /\ kw.quality_score <= 10

\* simulate_volume_based_auctions raises: np.random.seed rejects a negative
\* seed with ValueError, and the volume estimate of a blank keyword text
\* raises IndexError.
SimulationRaises(req) ==
    \/ req.seed < 0
    \/ \E i \in DOMAIN req.keywords : IndexErrorAt(normalized_keyword(req.keywords[i].text))

ConfigOf(req) ==
    _create_simulation_config(req.keywords, req.geo, req.campaign_context, req.seed)

\* run_cached_simulation for a request whose simulation raises: the lookup
\* is made, and the exception leaves the call before anything is stored.
RaisingRun(C, enabled, req, use_cache, t) ==
    LET looked == IF use_cache /\ enabled THEN get(C, ConfigOf(req), t)
                  ELSE [cache |-> C, value |-> <<>>]
    IN  IF looked.value # <<>>
        THEN [cache |-> looked.cache, status |-> 200, ran |-> FALSE]
        ELSE [cache |-> looked.cache, status |-> 500, ran |-> TRUE]

\* The endpoint: 422 from the request model, else run_deterministic_simulation
\* (cache_ttl_hours is left at its default), 500 when it raises.
cached_simulate(C, enabled, req, use_cache, t) ==
    IF \E i \in DOMAIN req.keywords : ~KeywordAccepted(req.keywords[i])
    THEN [cache |-> C, status |-> 422, ran |-> FALSE]
    ELSE IF SimulationRaises(req)
    THEN RaisingRun(C, enabled, req, use_cache, t)
    ELSE LET r == run_cached_simulation(C, enabled, req, use_cache, ttl_hours, t)
         IN  [cache |-> r.cache, status |-> 200, ran |-> r.fresh]

OneKeyword(text, bid, quality_score, match_type, geo, seed) ==
    [keywords |-> <<[text |-> text, bid |-> bid, quality_score |-> quality_score,
                     match_type |-> match_type]>>,
     geo |-> geo, campaign_context |-> JNone, seed |-> seed]

GoodRequests == {OneKeyword("fix leaky tap", 600, 7, "phrase", "CA", 12345),
                 OneKeyword("drain repair", 900, 10, "broad", "ES", 12345)}

BadRequests == {OneKeyword("fix leaky tap", 0, 7, "phrase", "CA", 12345),
                OneKeyword("fix leaky tap", 600, 0, "phrase", "CA", 12345),
                OneKeyword("fix leaky tap", 600, 11, "phrase", "CA", 12345),
                OneKeyword("fix leaky tap", 600, 7, "fuzzy", "CA", 12345)}

RaisingRequests == {OneKeyword("fix leaky tap", 600, 7, "phrase", "CA", -1),
                    OneKeyword("   ", 600, 7, "phrase", "CA", 12345)}

CachedSimulate(req, use_cache) ==
    /\ (use_cache /\ cache_enabled) => stats.total_requests < MaxRequests
    /\ \E r \in {cached_simulate(Self, cache_enabled, req, use_cache, now)} :
           /\ SetSelf(r.cache)
           /\ ret' = [op |-> "cached_simulate", request |-> req, status |-> r.status,
                      ran |-> r.ran]
    /\ UNCHANGED <<now, cache_enabled, calls>>
    /\ SimIdle

EndpointNext ==
    \/ \E req \in GoodRequests \cup BadRequests \cup RaisingRequests, use_cache \in BOOLEAN :
          CachedSimulate(req, use_cache)
    \/ Tick
    \/ Restart

SpecEndpoint == Init /\ [][EndpointNext]_vars

\* The populating calls of the log for the config of req: the fresh runs
\* whose result was stored.
PopulatedBy(req) ==
    {i \in DOMAIN calls : /\ calls[i].fresh
                          /\ calls[i].stored
                          /\ ConfigOf(calls[i].request) = ConfigOf(req)}

SameMetadata(hit, miss) ==
    /\ hit.cache_key = miss.cache_key
    /\ hit.seed = miss.seed
    /\ hit.simulated_at = miss.simulated_at
    /\ hit.results = miss.results

\* C24 (as the specification states it): a response served from the cache
\* carries the non-null cache key of its config and the cache_key, seed,
\* simulated_at and results of the miss response that stored it, whichever
\* tier served it.
C24_HitSameAsMiss ==
    (ret.op = "run_cached_simulation" /\ ~ret.fresh) =>
       /\ ret.response.cache_key = <<_generate_config_hash(ConfigOf(ret.request))>>
       /\ \A i \in PopulatedBy(ret.request) \ {Len(calls)} :
             SameMetadata(ret.response, calls[i].response)

\* The cache holds an entry for the request's config, in memory or on disk.
HoldsEntryFor(req) ==
    _generate_config_hash(ConfigOf(req)) \in DOMAIN memory_cache \cup DOMAIN cache_dir

\* C23: a request with a keyword of bid <= 0, quality score outside 1..10 or
\* unknown match type is answered 422 with no auction run, a request whose
\* simulation raises is answered 500, and at no time does the cache hold an
\* entry, in memory or on disk, for the config of either.
C23_NothingCachedForRejected ==
    /\ \A req \in BadRequests \cup RaisingRequests : ~HoldsEntryFor(req)
    /\ ret.op = "cached_simulate" =>
          /\ ret.request \in BadRequests => ret.status = 422 /\ ~ret.ran
          /\ ret.request \in RaisingRequests => ret.status = 500

\* A rejected request that arrives while the cache holds the entry of an
\* accepted one.
C23_Witness ==
    /\ ret.op = "cached_simulate"
    /\ ret.request \in BadRequests
    /\ ret.status = 422
    /\ \E req \in GoodRequests : HoldsEntryFor(req)

\* C2: a run_cached_simulation call with use_cache = true on a service whose
\* caching is on, made no later than the expiry of the entry that an earlier
\* fresh, stored call with the same request created (and with no invalidate,
\* clear or cleanup in between), runs no simulation, answers cache_hit = true
\* and returns the results list of that earlier call, whose own answer had
\* cache_hit = false.
C2_SecondCallHits ==
    [][(ret'.op = "run_cached_simulation" /\ ret'.use_cache /\ cache_enabled) =>
         \A i \in DOMAIN calls :
            (/\ calls[i].request = ret'.request
             /\ calls[i].fresh
             /\ calls[i].stored
             /\ now <= calls[i].at + calls[i].cache_ttl_hours)
            => /\ ~ret'.fresh
               /\ ret'.response.cache_hit
               /\ ret'.response.results = calls[i].response.results
               /\ ~calls[i].response.cache_hit]_vars

\* The second of two equal requests was answered from the cache, some hours
\* after the first, with the first call's non-empty results.
C2_Witness ==
    /\ ret.op = "run_cached_simulation"
    /\ Len(calls) = 2
    /\ calls[1].request = calls[2].request
    /\ calls[1].fresh /\ calls[1].stored /\ ~calls[1].response.cache_hit
    /\ ~calls[2].fresh /\ calls[2].response.cache_hit
    /\ calls[2].at > calls[1].at
    /\ calls[2].response.results = calls[1].response.results
    /\ Len(calls[2].response.results) > 1

(***************************************************************************)
(* The rate models of enhanced_auction.py.  A rate is in units of 0.0001   *)
(* (the four decimals it is rounded to); the +-5% and +-10% random factors *)
(* are taken at a resolution of one percent.                               *)
(***************************************************************************)
\* dict.get(key, default) on a JSON dict
DictGet(d, key, default) ==
    IF \E i \in DOMAIN d.v : d.v[i][1] = key
    THEN d.v[CHOOSE i \in DOMAIN d.v : d.v[i][1] = key][2]
    ELSE default

\* the truth value of "if campaign_context:"
Truthy(campaign_context) == ~IsNone(campaign_context) /\ campaign_context.v # <<>>

\* in thousandths
base_ctr_by_position(position) ==
    CASE position = 1 -> 80
      [] position = 2 -> 50
      [] position = 3 -> 30
      [] position = 4 -> 20
      [] position = 5 -> 15
      [] position = 6 -> 10
      [] position = 7 -> 8
      [] position = 8 -> 6
      [] position = 9 -> 4
      [] position = 10 -> 3
      [] OTHER -> 1

\* 0.7 + (quality_score / 10) * 0.6, in hundredths
qs_modifier(quality_score) == 70 + 6 * quality_score

calculate_enhanced_ctr(position, quality_score, match_type, keyword, campaign_context, seed) ==
    LET match_modifier == CASE match_type = "exact" -> 12
                            [] match_type = "broad" -> 8
                            [] OTHER -> 10
        goal == DictGet(campaign_context, "goal", JStr("sales"))
        reach_methods == DictGet(campaign_context, "reach_methods", JList(<<>>))
        \* in twentieths
        context_modifier ==
            IF ~Truthy(campaign_context) THEN 20
            ELSE IF /\ goal \in {JStr("sales"), JStr("leads")}
                    /\ \E i \in DOMAIN reach_methods.v :
                          reach_methods.v[i] = JStr("Your business's website")
                 THEN 22
            ELSE IF goal = JStr("website_traffic") THEN 21
            ELSE 20
        \* np.random.uniform(0.95, 1.05), the first draw after seeding
        random_factor == 95 + (Rand(seed, 0) * 10) \div RandMod
    IN  RoundDiv(base_ctr_by_position(position) * qs_modifier(quality_score) * match_modifier
                     * context_modifier * random_factor, 200000)

\* base_cvr in hundredths
calculate_enhanced_cvr(quality_score, campaign_context, base_cvr, seed) ==
    LET goal == DictGet(campaign_context, "goal", JStr("sales"))
        \* in tenths
        goal_modifier ==
            IF ~Truthy(campaign_context) THEN 10
            ELSE CASE goal = JStr("sales") -> 12
                   [] goal = JStr("leads") -> 11
                   [] goal = JStr("website_traffic") -> 8
                   [] goal = JStr("product_brand_consideration") -> 9
                   [] goal = JStr("local_store_visits") -> 11
                   [] OTHER -> 10
        \* np.random.uniform(0.9, 1.1)
        random_factor == 90 + (Rand(seed, 0) * 20) \div RandMod
    IN  RoundDiv(base_cvr * qs_modifier(quality_score) * goal_modifier * random_factor, 1000)

(***************************************************************************)
(* The enhanced pipeline (enhanced_simulate.run_enhanced_simulation) for a *)
(* request with manual_cpc bidding and given quality scores, answered      *)
(* without a cached response.  str_hash is hash(kw_text) % 1000 as the     *)
(* running interpreter computes it: a function of the text and of the salt *)
(* the interpreter drew when it started.  Of the response, the auction     *)
(* results, by_keyword and the campaign metrics are kept.                  *)
(***************************************************************************)
\* The distinct keyword texts of the results, in order of first appearance
\* (the insertion order of keyword_stats).
RECURSIVE StatKeys(_)
StatKeys(results) ==
    IF results = <<>> THEN <<>>
    ELSE LET front == StatKeys(SubSeq(results, 1, Len(results) - 1))
             k == results[Len(results)].keyword
         IN  IF \E i \in DOMAIN front : front[i] = k THEN front ELSE Append(front, k)

RECURSIVE Sum(_)
Sum(xs) == IF xs = <<>> THEN 0 ELSE xs[1] + Sum(Tail(xs))

\* abs(seed) % (2**32 - 1); the seeds used here are below 2^31 in size
base_seed_of(seed) == IF seed < 0 THEN 0 - seed ELSE seed

\* The by_keyword entry of one keyword from its results (mine); cost is the
\* exact fraction clicks * mean(cpcs) as <<numerator, denominator>>, in cents.
KeywordResult(kw_text, req, str_hash, mine) ==
    LET impressions == Len(mine)
        positions == [i \in DOMAIN mine |-> mine[i].position]
        cpcs == [i \in DOMAIN mine |-> mine[i].cpc]
        quality_score == mine[1].quality_score
        match_type == mine[1].match_type
        ctr == calculate_enhanced_ctr(Sum(positions) \div impressions, quality_score,
                                      match_type, kw_text, req.campaign_context,
                                      base_seed_of(req.seed) + str_hash[kw_text])
        clicks == (impressions * ctr) \div 10000
        cvr == calculate_enhanced_cvr(quality_score, req.campaign_context, req.base_cvr,
                                      base_seed_of(req.seed) + str_hash[kw_text])
        volume_data == get_volume_data(kw_text)
        auction_estimate == estimate_daily_auctions(kw_text, match_type, req.geo)
    IN  [text |-> kw_text, match_type |-> match_type, impressions |-> impressions,
         clicks |-> clicks, ctr |-> ctr,
         avg_position |-> RoundDiv(Sum(positions) * 100, impressions),
         avg_cpc |-> RoundDiv(Sum(cpcs), impressions),
         exact_cost |-> <<clicks * Sum(cpcs), impressions>>,
         cost |-> RoundDiv(clicks * Sum(cpcs), impressions),
         conversions |-> (clicks * cvr) \div 10000, cvr |-> cvr,
         quality_score |-> quality_score,
         daily_auctions |-> IF volume_data # <<>>
                            THEN volume_data[1].monthly_searches \div 30
                            ELSE auction_estimate.daily_auctions,
         volume_source |-> IF volume_data # <<>> THEN "static"
                           ELSE auction_estimate.volume_source,
         competition_level |-> get_competition_level(kw_text)]

\* total_cost, the sum of the exact per-keyword costs, as a fraction
RECURSIVE TotalCost(_)
TotalCost(keyword_results) ==
    IF keyword_results = <<>> THEN <<0, 1>>
    ELSE LET rest == TotalCost(Tail(keyword_results))
             c == keyword_results[1].exact_cost
         IN  <<c[1] * rest[2] + rest[1] * c[2], c[2] * rest[2]>>

\* The campaign metrics from the by_keyword entries.
CampaignMetrics(keyword_results) ==
    LET total_impressions == Sum([i \in DOMAIN keyword_results |->
                                     keyword_results[i].impressions])
        total_clicks == Sum([i \in DOMAIN keyword_results |-> keyword_results[i].clicks])
        total_conversions == Sum([i \in DOMAIN keyword_results |->
                                     keyword_results[i].conversions])
        total_cost == TotalCost(keyword_results)
    IN  [total_impressions |-> total_impressions,
         total_clicks |-> total_clicks,
         total_cost |-> RoundDiv(total_cost[1], total_cost[2]),
         total_conversions |-> total_conversions,
         avg_ctr |-> IF total_impressions > 0
                     THEN RoundDiv(total_clicks * 10000, total_impressions) ELSE 0,
         avg_cvr |-> IF total_clicks > 0
                     THEN RoundDiv(total_conversions * 10000, total_clicks) ELSE 0,
         avg_cpc |-> IF total_clicks > 0
                     THEN RoundDiv(total_cost[1], total_cost[2] * total_clicks) ELSE 0,
         avg_cpa |-> IF total_conversions > 0
                     THEN RoundDiv(total_cost[1], total_cost[2] * total_conversions) ELSE 0]

\* The by_keyword list: one entry per key of keyword_stats.
KeywordResults(auction_results, stat_keys, req, str_hash) ==
    [i \in DOMAIN stat_keys |->
        KeywordResult(stat_keys[i], req, str_hash,
                      SelectSeq(auction_results, LAMBDA r : r.keyword = stat_keys[i]))]

\* response_data, once by_keyword is known
ResponseData(auction_results, keyword_results) ==
    [done |-> TRUE, auction_results |-> auction_results, by_keyword |-> keyword_results,
     metrics |-> CampaignMetrics(keyword_results)]

\* The aggregation of the auction results (lines 210-362).
Aggregate(auction_results, req, str_hash) ==
    ResponseData(auction_results,
                 KeywordResults(auction_results, StatKeys(auction_results), req, str_hash))

run_enhanced_simulation(req, str_hash) ==
    Aggregate(simulate_volume_based_auctions(req.keywords, req.geo, req.campaign_context,
                                             base_seed_of(req.seed)),
              req, str_hash)

(***************************************************************************)
(* Two server processes are handed the same request, each with an empty    *)
(* response cache.  A process starts with a str-hash salt of its own and   *)
(* with whatever state earlier requests left in its numpy generator.       *)
(***************************************************************************)
Procs == {1, 2}

\* hash(kw_text) % 1000 lies in 0..999; 0..MaxResidue of it is explored
MaxResidue == 1

PipeKeywordLists == {<<LeakyTap("phrase")>>, <<LeakyTap("exact"), DrainRepair("broad")>>}

PipeRequests ==
    [keywords : PipeKeywordLists,
     geo : {"CA", "ES"},
     campaign_context : {JDict(<<>>),
                         JDict(<< <<"goal", JStr("leads")>>,
                                  <<"reach_methods",
                                    JList(<<JStr("Your business's website")>>)>> >>)},
     seed : {12345, -12346},
     base_cvr : {3}]

TextsOf(req) == {req.keywords[i].text : i \in DOMAIN req.keywords}

LeftoverStates == {np_random_seed(0), [seed |-> 7, n |-> 3]}

PipeIdle == UNCHANGED <<cacheVars, svcVars, hashVars, aucVars>>

PipeInit ==
    /\ request \in PipeRequests
    /\ salt \in [Procs -> [TextsOf(request) -> 0..MaxResidue]]
    /\ rng \in [Procs -> LeftoverStates]
    /\ output = [p \in Procs |-> [done |-> FALSE]]
    /\ CacheInit
    /\ cache_enabled = TRUE
    /\ calls = <<>>
    /\ cfg1 = JStr("")
    /\ cfg2 = JStr("")
    /\ keys = <<>>
    /\ ads = <<>>
    /\ winners = <<>>

\* Process p answers the request.  Every function of the pipeline that draws
\* a random number seeds the generator first; the last to do so is the cvr
\* model of the last keyword, which makes one draw.
RunEnhanced(p) ==
    /\ ~output[p].done
    /\ \E response \in {run_enhanced_simulation(request, salt[p])} :
           /\ output' = [output EXCEPT ![p] = response]
           /\ rng' = [rng EXCEPT ![p] =
                         [seed |-> base_seed_of(request.seed)
                                     + salt[p][response.by_keyword[Len(response.by_keyword)].text],
                          n |-> 1]]
    /\ ret' = [op |-> "run_enhanced_simulation", proc |-> p]
    /\ UNCHANGED <<request, salt>>
    /\ PipeIdle

PipeNext == \E p \in Procs : RunEnhanced(p)

SpecPipeline == PipeInit /\ [][PipeNext]_vars

\* C4: two runs of the pipeline on the same request, each from an empty
\* cache and in any two processes, give the same auction results, the same
\* per-keyword metrics and the same campaign metrics.
C4_SameOutputs ==
    \A p, q \in Procs : (output[p].done /\ output[q].done) => output[p] = output[q]

\* What does hold: the auction results of the two runs are the same.
C4_SameAuctionResults ==
    \A p, q \in Procs :
       (output[p].done /\ output[q].done) => output[p].auction_results = output[q].auction_results

\* Both processes have answered a request whose keywords all won auctions.
C4_Witness ==
    /\ \A p \in Procs : output[p].done /\ Len(output[p].auction_results) > 1
    /\ salt[1] # salt[2]
    /\ rng[1] # rng[2]

(***************************************************************************)
(* Quality scores: calculate_enhanced_quality_score over the quality score *)
(* engine, and its fallback calculate_simple_quality_score.  No AI model   *)
(* is loaded, so ad relevance is the rule-based one.  Texts are atoms:     *)
(* what the engine reads off a keyword and an ad text, and off a landing   *)
(* page URL, is tabulated.                                                 *)
(***************************************************************************)
\* " ".join(headlines + descriptions).lower() against the keyword: whether it
\* contains the keyword, how many of the keyword's words it contains, and
\* whether it contains a transactional word.
AdTextFacts(keyword, headline) ==
    CASE headline = "Fix Leaky Tap Today - buy now" ->
           [keyword_in_ad |-> keyword = "fix leaky tap",
            matched_words |-> IF keyword = "fix leaky tap" THEN 3 ELSE 0,
            transactional_word |-> TRUE]
      [] headline = "Drain cleaning" ->
           [keyword_in_ad |-> FALSE,
            matched_words |-> IF keyword = "drain repair" THEN 1 ELSE 0,
            transactional_word |-> FALSE]
      [] OTHER -> [keyword_in_ad |-> FALSE, matched_words |-> 0, transactional_word |-> FALSE]

\* _analyze_landing_page_offline(url), in hundredths
_analyze_landing_page_offline(url) ==
    CASE url = "https://example.com" -> 70
      [] url = "https://shop.acme.com/landing" -> 100
      [] url = "http://localhost/404" -> 20

StrOf(j) == j.v[2]

\* The AdData and KeywordData that calculate_enhanced_quality_score builds.
AdData(campaign_context) ==
    IF Truthy(campaign_context)
    THEN [headline |-> StrOf(DictGet(campaign_context, "ad_headline", JStr("Generic Ad"))),
          final_url |-> StrOf(DictGet(campaign_context, "final_url",
                                      JStr("https://example.com"))),
          extensions |-> DictGet(campaign_context, "extensions", JList(<<>>)).v,
          device_targeting |-> StrOf(DictGet(campaign_context, "device_targeting",
                                             JStr("all")))]
    ELSE [headline |-> "Generic Ad", final_url |-> "https://example.com",
          extensions |-> <<>>, device_targeting |-> "all"]

KeywordData(keyword, match_type, campaign_context) ==
    [text |-> keyword, match_type |-> match_type,
     intent |-> IF Truthy(campaign_context)
                THEN StrOf(DictGet(campaign_context, "keyword_intent", JStr("informational")))
                ELSE "informational",
     competition |-> IF Truthy(campaign_context)
                     THEN StrOf(DictGet(campaign_context, "competition_level", JStr("medium")))
                     ELSE "medium"]

\* in hundredths
predict_expected_ctr(ad, keyword) ==
    LET intent == CASE keyword.intent = "transactional" -> 3
                    [] keyword.intent = "navigational" -> 2
                    [] keyword.intent = "informational" -> 1
                    [] OTHER -> 0
        match == CASE keyword.match_type = "exact" -> 2
                   [] keyword.match_type = "phrase" -> 1
                   [] OTHER -> 0
        inclusion == IF AdTextFacts(keyword.text, ad.headline).keyword_in_ad THEN 2 ELSE 0
        device == IF ad.device_targeting = "mobile" THEN 1 ELSE 0
        extensions == IF Len(ad.extensions) > 2 THEN 1 ELSE 0
        competition == CASE keyword.competition = "low" -> 1
                         [] keyword.competition = "high" -> -1
                         [] OTHER -> 0
    IN  Min(100, Max(1, 3 + intent + match + inclusion + device + extensions + competition))

\* _check_relevance_rule_based, in thirtieths
check_ad_relevance(ad, keyword) ==
    LET f == AdTextFacts(keyword.text, ad.headline)
        words == TextFacts[keyword.text].words
        exact == IF f.keyword_in_ad THEN 9 ELSE 0
        partial == IF f.matched_words > 0 THEN (6 * f.matched_words) \div words ELSE 0
        intent == IF keyword.intent = "transactional" /\ f.transactional_word THEN 3 ELSE 0
    IN  Min(30, 15 + exact + partial + intent)

\* in hundredths
calculate_landing_page_experience(url) == _analyze_landing_page_offline(url)

\* in tenths
calculate_extension_bonus(ad) ==
    LET num_extensions == Len(ad.extensions)
    IN  IF num_extensions >= 4 THEN 15
        ELSE IF num_extensions >= 3 THEN 13
        ELSE IF num_extensions >= 2 THEN 12
        ELSE IF num_extensions >= 1 THEN 11
        ELSE 10

\* final_score of QualityScoreEngine.calculate_quality_score, in tenths:
\* min(10.0, round(raw_score, 1)); there is no lower bound.
calculate_quality_score(ad, keyword) ==
    LET product == predict_expected_ctr(ad, keyword) * check_ad_relevance(ad, keyword)
                     * calculate_landing_page_experience(ad.final_url)
                     * calculate_extension_bonus(ad)
    IN  Min(100, RoundDiv(product, 30000))

\* int(qs_components.final_score)
calculate_enhanced_quality_score(keyword, match_type, campaign_context) ==
    calculate_quality_score(AdData(campaign_context),
                            KeywordData(keyword, match_type, campaign_context)) \div 10

\* The two scores are in tenths.  int(round(max(1, min(10, final_qs)))).
calculate_simple_quality_score(keyword, match_type, campaign_context, ad_relevance_score, landing_page_score) ==
    LET ctr_modifier == CASE match_type = "exact" -> 12
                          [] match_type = "phrase" -> 10
                          [] match_type = "broad" -> 8
                          [] OTHER -> 10
        goal == IF Truthy(campaign_context)
                THEN StrOf(DictGet(campaign_context, "goal", JStr("sales")))
                ELSE ""
        reach_methods == IF Truthy(campaign_context)
                         THEN DictGet(campaign_context, "reach_methods", JList(<<>>)).v
                         ELSE <<>>
        goal_modifier ==
            IF goal \in {"sales", "leads"}
                   /\ JStr("Your business's website") \in Range(reach_methods) THEN 110
            ELSE IF goal = "website_traffic" THEN 105
            ELSE 100
        \* in tenths, then in thousandths
        final_qs == 50 + (ad_relevance_score - 5) * 4 + (ctr_modifier - 10)
                       + (landing_page_score - 5) * 2
    IN  RoundDiv(Max(1000, Min(10000, final_qs * goal_modifier)), 1000)

\* A campaign context with the ad, landing page, extensions, device, intent,
\* competition and goal entries the quality score functions read.
QualityContext(headline, url, num_extensions, device, intent, competition, goal) ==
    JDict(<< <<"ad_headline", JStr(headline)>>, <<"final_url", JStr(url)>>,
             <<"extensions", JList([i \in 1..num_extensions |-> JStr("sitelink")])>>,
             <<"device_targeting", JStr(device)>>, <<"keyword_intent", JStr(intent)>>,
             <<"competition_level", JStr(competition)>>, <<"goal", JStr(goal)>>,
             <<"reach_methods", JList(<<JStr("Your business's website")>>)>> >>)

MaxExtensions == 4

QualityContexts ==
    {JNone, JDict(<<>>), JDict(<< <<"goal", JStr("website_traffic")>> >>)}
      \cup {QualityContext(h, u, n, d, i, c, g) :
               h \in {"Generic Ad", "Fix Leaky Tap Today - buy now", "Drain cleaning"},
               u \in {"https://example.com", "https://shop.acme.com/landing",
                      "http://localhost/404"},
               n \in {0, MaxExtensions}, d \in {"all", "mobile"},
               i \in {"informational", "transactional"}, c \in {"low", "high"},
               g \in {"sales", "awareness"}}

QualityKeywords == {"plumber", "fix leaky tap", "drain repair"}

\* ad_relevance_score and landing_page_score, in tenths (default 7)
ScoreChoices == {0, 7, 10}

QualityIdle == UNCHANGED <<cacheVars, svcVars, hashVars, aucVars, salt, rng, request>>

QualityInit ==
    /\ request \in [keyword : QualityKeywords, match_type : MatchTypes,
                     campaign_context : QualityContexts,
                     ad_relevance_score : ScoreChoices, landing_page_score : ScoreChoices]
    /\ output = <<>>
    /\ rng = <<>>
    /\ ads = <<>>
    /\ winners = <<>>
    /\ CacheInit
    /\ cache_enabled = TRUE
    /\ calls = <<>>
    /\ cfg1 = JStr("")
    /\ cfg2 = JStr("")
    /\ keys = <<>>
    /\ salt = <<>>

CalculateEnhancedQualityScore ==
    /\ ret.op = "init"
    /\ output' = <<calculate_enhanced_quality_score(request.keyword, request.match_type,
                                                    request.campaign_context)>>
    /\ ret' = [op |-> "calculate_enhanced_quality_score"]
    /\ QualityIdle

CalculateSimpleQualityScore ==
    /\ ret.op = "init"
    /\ output' = <<calculate_simple_quality_score(request.keyword, request.match_type,
                                                  request.campaign_context,
                                                  request.ad_relevance_score,
                                                  request.landing_page_score)>>
    /\ ret' = [op |-> "calculate_simple_quality_score"]
    /\ QualityIdle

QualityNext == CalculateEnhancedQualityScore \/ CalculateSimpleQualityScore

SpecQuality == QualityInit /\ [][QualityNext]_vars

\* C16 (as the specification states it): both quality score functions return
\* an integer q with 1 <= q <= 10.
C16_QualityScoreInRange ==
    ret.op \in {"calculate_enhanced_quality_score", "calculate_simple_quality_score"}
       => output[1] \in 1..10

\* The fallback alone keeps to 1..10, and the engine's score never exceeds 2.
C16_SimpleInRange ==
    /\ ret.op = "calculate_simple_quality_score" => output[1] \in 1..10
    /\ ret.op = "calculate_enhanced_quality_score" => output[1] \in 0..2

(***************************************************************************)
(* The click and conversion rate models: ctr_model.simulate_ctr and        *)
(* simulate_cvr behind calculate_ctr and calculate_cvr, the keyword        *)
(* adjustments of the cached endpoint, and calculate_enhanced_ctr and      *)
(* calculate_enhanced_cvr.  A rate is a fraction [num, den].               *)
(***************************************************************************)
\* 1 / (1 + exp(-1.5 x quality_score)), in ten-thousandths, rounded down
Sigmoid == <<8175, 9525, 9890, 9975, 9994, 9998, 9999, 9999, 9999, 9999>>

\* matching.get_ctr_boost, as 100 x (1 + ctr_boost)
get_ctr_boost(match_type) ==
    CASE match_type = "exact" -> 115
      [] match_type = "broad" -> 95
      [] OTHER -> 105

\* calculate_ctr: simulate_ctr with ad_rank = quality_score x 1.5; in millionths
simulate_ctr(quality_score, position, device_type, num_extensions, match_type) ==
    LET position_boost == CASE position = 1 -> 500 [] position = 2 -> 300
                            [] position = 3 -> 100 [] OTHER -> 0
        device_boost == CASE device_type = "mobile" -> 200 [] device_type = "tablet" -> 100
                          [] OTHER -> 0
        base_ctr == 300 + Sigmoid[quality_score] + position_boost + device_boost
                       + 100 * num_extensions
    IN  [num |-> Min(base_ctr * get_ctr_boost(match_type), 250000), den |-> 1000000]

\* simulate_cvr; lp_score in tenths, ad_rank in hundredths; in hundred-thousandths
simulate_cvr(campaign_objective, lp_score, ad_rank, position) ==
    LET base_cvr == CASE campaign_objective = "sales" -> 8
                      [] campaign_objective = "leads" -> 12
                      [] campaign_objective \in {"traffic", "website_traffic"} -> 3
                      [] campaign_objective = "brand_awareness" -> 2
                      [] OTHER -> 5
        rank_boost == IF ad_rank > 700 THEN 12
                      ELSE IF ad_rank > 500 THEN 11
                      ELSE IF ad_rank < 300 THEN 8
                      ELSE 10
        position_boost == CASE position = 1 -> 13 [] position = 2 -> 11
                            [] position = 3 -> 10 [] OTHER -> 9
    IN  [num |-> Min(base_cvr * lp_score * rank_boost * position_boost, 100000),
         den |-> 100000]

\* calculate_cvr: simulate_cvr with ad_rank = quality_score x 1.5
calculate_cvr(campaign_objective, lp_score, quality_score, position) ==
    simulate_cvr(campaign_objective, lp_score, quality_score * 150, position)

\* The cached endpoint's rates of a keyword: keyword_complexity =
\* 1 + (len - 10) x 0.02, keyword_length_factor = words / 3, the caps last.
\* avg_cpc in cents.
CachedEndpointCtr(kw_text, quality_score, match_type, position) ==
    LET f == TextFacts[kw_text]
        base_ctr == simulate_ctr(quality_score, position, "desktop", 0, match_type)
        num == base_ctr.num * (80 + 2 * f.len) * (12 + 2 * f.words)
        den == base_ctr.den * 1500
    IN  [num |-> IF num <= den \div 4 THEN num ELSE den \div 4, den |-> den]

CachedEndpointCvr(kw_text, quality_score, avg_cpc, position) ==
    LET f == TextFacts[kw_text]
        base_cvr == simulate_cvr("sales", 7, quality_score * avg_cpc, position)
        num == base_cvr.num * (80 + 2 * f.len) * (7 + 2 * f.words)
        den == base_cvr.den * 1000
    IN  [num |-> IF num <= den THEN num ELSE den, den |-> den]

\* The request models admit base_cvr up to 0.5 (in hundredths).
MaxBaseCvr == 50

RateInputs ==
    [position : {1, 2, 5, 10}, quality_score : {1, 4, 7, 10}, match_type : MatchTypes,
     keyword : {"plumber", "real estate investment"}, device_type : {"desktop", "mobile"},
     num_extensions : {0, MaxExtensions}, avg_cpc : {50, 1000},
     campaign_context : {JNone,
                         JDict(<< <<"goal", JStr("sales")>>,
                                  <<"reach_methods",
                                    JList(<<JStr("Your business's website")>>)>> >>),
                         JDict(<< <<"goal", JStr("website_traffic")>> >>)},
     seed : SeedBase..(SeedBase + MaxThreadSeedOffset),
     base_cvr : {1, 3, MaxBaseCvr, 100}]

RateIdle == UNCHANGED <<cacheVars, svcVars, hashVars, aucVars, salt, request>>

RateInit ==
    /\ request \in RateInputs
    /\ output = <<>>
    /\ rng = np_random_seed(0)
    /\ ads = <<>>
    /\ winners = <<>>
    /\ CacheInit
    /\ cache_enabled = TRUE
    /\ calls = <<>>
    /\ cfg1 = JStr("")
    /\ cfg2 = JStr("")
    /\ keys = <<>>
    /\ salt = <<>>

\* A rate model is applied to the request; the seeded models reseed the
\* generator and make one draw.
RateStep(op, kind, rate, g) ==
    /\ output' = [kind |-> kind, num |-> rate.num, den |-> rate.den]
    /\ rng' = g
    /\ ret' = [op |-> op]
    /\ RateIdle

CalculateCtr ==
    /\ ret.op = "init"
    /\ RateStep("calculate_ctr", "ctr",
             simulate_ctr(request.quality_score, request.position, request.device_type,
                          request.num_extensions, request.match_type), rng)

CalculateCvr ==
    /\ ret.op = "init"
    /\ \E objective \in {"sales", "leads", "website_traffic", "other"}, lp_score \in {1, 7, 10} :
        RateStep("calculate_cvr", "cvr",
                 calculate_cvr(objective, lp_score, request.quality_score, request.position),
                 rng)

CachedEndpointRates ==
    /\ ret.op = "init"
    /\ \/ RateStep("cached_endpoint_ctr", "ctr",
                CachedEndpointCtr(request.keyword, request.quality_score, request.match_type,
                                  request.position), rng)
       \/ RateStep("cached_endpoint_cvr", "cvr",
                CachedEndpointCvr(request.keyword, request.quality_score, request.avg_cpc,
                                  request.position), rng)

CalculateEnhancedCtr ==
    /\ ret.op = "init"
    /\ RateStep("calculate_enhanced_ctr", "ctr",
             [num |-> calculate_enhanced_ctr(request.position, request.quality_score,
                                             request.match_type, request.keyword,
                                             request.campaign_context, request.seed),
              den |-> 10000],
             [seed |-> request.seed, n |-> 1])

CalculateEnhancedCvr ==
    /\ ret.op = "init"
    /\ RateStep("calculate_enhanced_cvr", "cvr",
             [num |-> calculate_enhanced_cvr(request.quality_score, request.campaign_context,
                                             request.base_cvr, request.seed),
              den |-> 10000],
             [seed |-> request.seed, n |-> 1])

RateNext ==
    \/ CalculateCtr
    \/ CalculateCvr
    \/ CachedEndpointRates
    \/ CalculateEnhancedCtr
    \/ CalculateEnhancedCvr

SpecRates == RateInit /\ [][RateNext]_vars

RateInBounds ==
    /\ output.num >= 0
    /\ output.kind = "ctr" => output.num <= output.den \div 4
    /\ output.kind = "cvr" => output.num <= output.den

\* C17 (as the specification states it): for base_cvr up to 1.0 every ctr is
\* in [0, 0.25] and every cvr in [0, 1.0].
C17_RateBounds == ret.op # "init" => RateInBounds

\* Every ctr is in [0, 0.25], and every cvr is in [0, 1.0] for base_cvr up to
\* 0.5, the most the request models admit.
RateBoundsAdmitted ==
    (ret.op # "init" /\ request.base_cvr <= MaxBaseCvr) => RateInBounds

(***************************************************************************)
(* The budget constraint of run_simulation (api/simulate.py).  Amounts of  *)
(* money are in hundredths of a cent, so that an average cpc (the mean of  *)
(* whole-cent cpcs) and a cost before its rounding are integers; a cost    *)
(* after round(., 2) is a multiple of 100.  The per-keyword loop has been  *)
(* run: each keyword has its clicks, its average cpc and its conversions.  *)
(* With the samples below no amount that is rounded lies exactly on half a *)
(* cent, where the float's representation would decide the rounding.       *)
(***************************************************************************)
MaxBudgetKeywords == 3

KeywordStatSamples ==
    { [clicks |-> 1,  avg_cpc |-> 175,  conversions |-> 0],
      [clicks |-> 3,  avg_cpc |-> 125,  conversions |-> 1],
      [clicks |-> 2,  avg_cpc |-> 210,  conversions |-> 1],
      [clicks |-> 10, avg_cpc |-> 333,  conversions |-> 2],
      [clicks |-> 7,  avg_cpc |-> 2225, conversions |-> 3],
      [clicks |-> 49, avg_cpc |-> 1003, conversions |-> 5] }

DailyBudgets == {100, 400, 1000, 10000, 60000}

\* cost = float(clicks * avg_cpc), before any rounding.
KeywordCost(stat) == stat.clicks * stat.avg_cpc

\* The KeywordResult of one keyword: clicks = int(clicks),
\* cost = round(float(cost), 2), conversions = int(conversions).
BudgetKeywordResult(stat) ==
    [clicks |-> stat.clicks,
     cost |-> 100 * RoundDiv(KeywordCost(stat), 100),
     conversions |-> stat.conversions]

\* total_cost += cost over the keywords: the costs as computed, not the
\* rounded costs of the results.
AccumulatedCost(keyword_stats) ==
    Sum([i \in DOMAIN keyword_stats |-> KeywordCost(keyword_stats[i])])

\* kw_result.cost * scale_factor with the scaling left out.
ScaledCostKept(cost, daily_budget, total_cost) == cost

\* round(kw_result.cost * scale_factor, 2) with
\* scale_factor = daily_budget / total_cost.
ScaledCost(cost, daily_budget, total_cost) ==
    100 * RoundDiv((cost \div 100) * daily_budget, total_cost)

\* int(n * scale_factor) for a count n of clicks or conversions.
ScaledCount(n, daily_budget, total_cost) == (n * daily_budget) \div total_cost

\* if total_cost > daily_budget: scale every keyword result and recompute
\* the totals from the scaled results.
budget_constraint(keyword_results, total_cost, daily_budget) ==
    IF total_cost > daily_budget
    THEN LET scaled ==
                 [i \in DOMAIN keyword_results |->
                     [clicks |-> ScaledCount(keyword_results[i].clicks,
                                             daily_budget, total_cost),
                      cost |-> ScaledCost(keyword_results[i].cost,
                                          daily_budget, total_cost),
                      conversions |-> ScaledCount(keyword_results[i].conversions,
                                                  daily_budget, total_cost)]]
         IN  [keyword_results |-> scaled,
              total_cost |-> Sum([i \in DOMAIN scaled |-> scaled[i].cost])]
    ELSE [keyword_results |-> keyword_results, total_cost |-> total_cost]

BudgetIdle == UNCHANGED <<cacheVars, svcVars, hashVars, aucVars, salt, rng, request>>

BudgetInit ==
    /\ request \in [keyword_stats : UNION {[1..n -> KeywordStatSamples] :
                                              n \in 1..MaxBudgetKeywords},
                     daily_budget : DailyBudgets]
    /\ output = <<>>
    /\ rng = <<>>
    /\ ads = <<>>
    /\ winners = <<>>
    /\ CacheInit
    /\ cache_enabled = TRUE
    /\ calls = <<>>
    /\ cfg1 = JStr("")
    /\ cfg2 = JStr("")
    /\ keys = <<>>
    /\ salt = <<>>

\* The end of run_simulation: the keyword results are built, the costs are
\* accumulated and the budget constraint is applied.  output keeps the
\* results as they were before the constraint next to the final ones.
ApplyBudgetConstraint ==
    /\ ret.op = "init"
    /\ LET keyword_results == [i \in DOMAIN request.keyword_stats |->
                                  BudgetKeywordResult(request.keyword_stats[i])]
           total_cost == AccumulatedCost(request.keyword_stats)
       IN  \E r \in {budget_constraint(keyword_results, total_cost,
                                       request.daily_budget)} :
              output' = [unscaled |-> keyword_results,
                         accumulated_cost |-> total_cost,
                         keyword_results |-> r.keyword_results,
                         total_cost |-> r.total_cost]
    /\ ret' = [op |-> "budget_constraint"]
    /\ BudgetIdle

BudgetNext == ApplyBudgetConstraint

SpecBudget == BudgetInit /\ [][BudgetNext]_vars

\* Keyword i's clicks and conversions are the whole part of the count times
\* daily_budget / total_cost, and its cost is that product to the nearest
\* cent.
ScaledByFactor(i) ==
    LET before == output.unscaled[i]
        after == output.keyword_results[i]
        B == request.daily_budget
        T == output.accumulated_cost
        d == (after.cost \div 100) * T - (before.cost \div 100) * B
    IN  /\ after.clicks * T <= before.clicks * B
        /\ (after.clicks + 1) * T > before.clicks * B
        /\ after.conversions * T <= before.conversions * B
        /\ (after.conversions + 1) * T > before.conversions * B
        /\ 2 * d <= T
        /\ 2 * d >= 0 - T

\* The budget constraint with the recomputed total cost at most `slack`
\* hundredths of a cent per keyword above daily_budget.
BudgetConstraintWithin(slack) ==
    IF output.accumulated_cost > request.daily_budget
    THEN /\ \A i \in DOMAIN output.keyword_results : ScaledByFactor(i)
         /\ output.total_cost
              <= request.daily_budget + slack * Len(output.keyword_results)
    ELSE output.keyword_results = output.unscaled

KeyOf(c) == _generate_config_hash(c)

SelfAfter == [memory_cache |-> memory_cache', cache_dir |-> cache_dir', stats |-> stats']

Held(k) == k \in DOMAIN memory_cache \/ k \in DOMAIN cache_dir

\* C1: after set(c, R, ttl), every get for c's key issued before the entry's
\* expiry time, with no set, invalidate or clear for the key in between (and
\* the same cache instance), returns exactly R, whatever else happened.
C1_GetReturnsStored ==
    [][ret'.op = "get" =>
          LET k == KeyOf(ret'.config)
          IN  (k \in DOMAIN last_set /\ now < last_set[k].expires_at)
                => ret'.value = <<last_set[k].data>>]_vars

\* A get, after another request and a move of the clock, that returns what
\* the last set stored for its key under the other key order.
C1_Witness ==
    /\ ret.op = "get"
    /\ ret.config = ConfigA2
    /\ KeyOf(ConfigA2) \in DOMAIN last_set
    /\ ret.value = <<last_set[KeyOf(ConfigA2)].data>>
    /\ now > 0 /\ now < last_set[KeyOf(ConfigA2)].expires_at
    /\ stats.total_requests >= 2

\* C5: a get issued after the expiry time of the entry held for the key is a
\* miss, and leaves no entry for the key in memory or on disk.
StoredExpired(k) ==
    /\ Held(k)
    /\ k \in DOMAIN memory_cache => _is_expired(memory_cache[k], now)
    /\ k \in DOMAIN cache_dir => _is_expired(cache_dir[k].entry, now)

C5_LazyExpiry ==
    [][ret'.op = "get" =>
          LET k == KeyOf(ret'.config)
          IN  StoredExpired(k)
                => /\ ret'.value = <<>>
                   /\ k \notin DOMAIN memory_cache'
                   /\ k \notin DOMAIN cache_dir']_vars

\* A get that missed on a key whose stored entry had expired in both tiers.
C5_Witness ==
    /\ ret.op = "get"
    /\ ret.value = <<>>
    /\ KeyOf(ret.config) \in DOMAIN last_set
    /\ now > last_set[KeyOf(ret.config)].expires_at
    /\ stats.evictions >= 2

\* C6: invalidate(c) removes the memory and the disk copy of c's key and
\* returns whether either existed; other keys keep their entries; a key held
\* in neither tier is a miss, and stays unheld until a set for that key.
C6_Invalidate ==
    [][/\ ret'.op = "invalidate" =>
            LET k == KeyOf(ret'.config)
            IN  /\ k \notin DOMAIN memory_cache'
                /\ k \notin DOMAIN cache_dir'
                /\ ret'.value = Held(k)
                /\ get(SelfAfter, ret'.config, now').value = <<>>
                /\ \A k2 \in (DOMAIN memory_cache \cup DOMAIN memory_cache') \ {k} :
                      /\ k2 \in DOMAIN memory_cache /\ k2 \in DOMAIN memory_cache'
                      /\ memory_cache'[k2] = memory_cache[k2]
                /\ \A k2 \in (DOMAIN cache_dir \cup DOMAIN cache_dir') \ {k} :
                      /\ k2 \in DOMAIN cache_dir /\ k2 \in DOMAIN cache_dir'
                      /\ cache_dir'[k2] = cache_dir[k2]
       /\ \A c \in CacheConfigs :
            ~Held(KeyOf(c))
              => /\ get(Self, c, now).value = <<>>
                 /\ (KeyOf(c) \in DOMAIN memory_cache' \/ KeyOf(c) \in DOMAIN cache_dir')
                      => (ret'.op = "set" /\ KeyOf(ret'.config) = KeyOf(c))]_vars

\* An invalidate that removed an entry while another key kept its own.
C6_Witness ==
    /\ ret.op = "invalidate"
    /\ ret.value = TRUE
    /\ ret.config = ConfigA
    /\ KeyOf(ConfigB) \in DOMAIN memory_cache
    /\ KeyOf(ConfigB) \in DOMAIN cache_dir

\* C7: clear() leaves the memory map and the disk store empty and all four
\* counters 0, so every configuration is a miss on its next get.
C7_Clear ==
    [][ret'.op = "clear" =>
          /\ memory_cache' = NoEntries
          /\ cache_dir' = NoEntries
          /\ stats' = ZeroStats
          /\ \A c \in CacheConfigs : get(SelfAfter, c, now').value = <<>>]_vars

\* A clear of a cache that held entries and had counted requests.
C7_Witness ==
    /\ ret.op = "clear"
    /\ ret.wiped >= 2
    /\ ret.requests >= 1

\* C8: a get for a key absent from memory whose disk entry is unexpired
\* returns the disk payload, counts a hit and no miss, and promotes the
\* entry, so that the following get is served from memory.
C8_TwoTierLookup ==
    [][ret'.op = "get" =>
          LET k == KeyOf(ret'.config)
          IN  (/\ k \notin DOMAIN memory_cache
               /\ k \in DOMAIN cache_dir
               /\ ~_is_expired(cache_dir[k].entry, now))
                => /\ ret'.value = <<cache_dir[k].entry.data>>
                   /\ stats'.hits = stats.hits + 1
                   /\ stats'.misses = stats.misses
                   /\ k \in DOMAIN memory_cache'
                   /\ memory_cache'[k].data = cache_dir[k].entry.data
                   /\ get(SelfAfter, ret'.config, now').tier = "memory"]_vars

\* A get served from the disk tier by an instance whose memory map did not
\* hold the key.
C8_Witness ==
    /\ ret.op = "get"
    /\ ret.tier = "disk"
    /\ ret.value # <<>>
    /\ KeyOf(ret.config) \in DOMAIN memory_cache

\* C9: a get adds 1 to total_requests and 1 to exactly one of hits and misses;
\* set, invalidate and cleanup leave the three alone; hits + misses =
\* total_requests in every state; get_stats reports hit_rate = hits /
\* total_requests, and 0 when total_requests = 0.
Counted(st) == <<st.hits, st.misses, st.total_requests>>

FreshGetAfter(c) == get(NewCache(cache_dir'), c, now').value

\* C25 (as the specification states it): cleanup() removes only expired
\* entries: an entry that has not expired when cleanup() runs, whatever its
\* TTL, is still returned afterwards by a get of the same instance and by a
\* get of a fresh instance that reads only the disk tier.
C25_CleanupKeepsUnexpired ==
    [][ret'.op = "cleanup" =>
          \A c \in CacheConfigs :
             LET k == KeyOf(c)
             IN  /\ (k \in DOMAIN memory_cache /\ ~_is_expired(memory_cache[k], now))
                      => get(SelfAfter, c, now').value = <<memory_cache[k].data>>
                 /\ (k \in DOMAIN cache_dir /\ ~_is_expired(cache_dir[k].entry, now))
                      => FreshGetAfter(c) = <<cache_dir[k].entry.data>>]_vars

\* The same for the entries whose TTL is at most twice the default one.
CleanupKeepsShortLived ==
    [][ret'.op = "cleanup" =>
          \A c \in CacheConfigs :
             LET k == KeyOf(c)
             IN  (/\ k \in DOMAIN cache_dir
                  /\ ~_is_expired(cache_dir[k].entry, now)
                  /\ cache_dir[k].entry.expires_at - cache_dir[k].st_mtime <= 2 * ttl_hours)
                    => FreshGetAfter(c) = <<cache_dir[k].entry.data>>]_vars

(***************************************************************************)
(* run_cached_simulation for two requests whose keyword lists are          *)
(* permutations of each other, and so share a cache key.                   *)
(***************************************************************************)
ReorderRequests ==
    {[keywords |-> <<LeakyTap("exact"), DrainRepair("broad")>>, geo |-> "ES",
      campaign_context |-> JNone, seed |-> 12345],
     [keywords |-> <<DrainRepair("broad"), LeakyTap("exact")>>, geo |-> "ES",
      campaign_context |-> JNone, seed |-> 12345]}

ReorderNext ==
    \/ \E req \in ReorderRequests, use_cache \in BOOLEAN :
          RunCachedSimulation(req, use_cache, ttl_hours)
    \/ clear_cache
    \/ Tick
    \/ Restart

SpecReorder == Init /\ [][ReorderNext]_vars

\* What an uncached simulation of the request returns.
FreshResults(req) ==
    simulate_volume_based_auctions(req.keywords, req.geo, req.campaign_context, req.seed)

\* C26 (as the specification states it): the response served from the cache
\* for a request has exactly the results sequence that a fresh, uncached
\* simulation of that request produces.
C26_CachedAsFresh ==
    (ret.op = "run_cached_simulation" /\ ~ret.fresh)
       => ret.response.results = FreshResults(ret.request)

\* The results of each keyword, in their order, are those of a fresh run.
CachedAsFreshPerKeyword ==
    (ret.op = "run_cached_simulation" /\ ~ret.fresh) =>
       \A i \in DOMAIN ret.request.keywords :
          LET Own(w) == w.keyword = ret.request.keywords[i].text
          IN  SelectSeq(ret.response.results, Own)
                 = SelectSeq(FreshResults(ret.request), Own)

(***************************************************************************)
(* The seeds handed to np.random.seed.  Python integers are unbounded and  *)
(* the generator takes 0 .. 2^32 - 1, so a seed is written                 *)
(* [wraps, rest] = wraps * 2^32 + rest with a small rest: 2^32 - 2 is      *)
(* [1, -2] and -1 is [0, -1].                                              *)
(***************************************************************************)
Big(wraps, rest) == [wraps |-> wraps, rest |-> rest]

Negative(x) == x.wraps < 0 \/ (x.wraps = 0 /\ x.rest < 0)

\* abs(x)
Abs(x) == IF Negative(x) THEN Big(0 - x.wraps, 0 - x.rest) ELSE x

\* x % (2**32 - 1) for 0 <= x < 2 * (2^32 - 1)
ModSeedRange(x) ==
    IF x.wraps = 0 THEN x
    ELSE IF x.rest + 1 >= 0 THEN Big(0, x.rest + 1)
    ELSE x

\* np.random.seed accepts x: 0 <= x <= 2^32 - 1.
SeedAccepted(x) == (x.wraps = 0 /\ x.rest >= 0) \/ (x.wraps = 1 /\ x.rest <= 0 - 1)

\* The seeds seed + auction_id, auction_id in range(auctions), as the first
\* and the last of them, and whether np.random.seed raised ValueError.
SeedsHanded(seed, auctions) ==
    [first |-> seed,
     last |-> [seed EXCEPT !.rest = @ + auctions - 1],
     raised |-> ~SeedAccepted(seed)
                   \/ ~SeedAccepted([seed EXCEPT !.rest = @ + auctions - 1])]

\* simulate.py run_simulation: base_seed = abs(seed) % (2**32 - 1), handed to
\* simulate_multiple_auctions, which seeds with it and runs auction
\* auction_id with seed + auction_id.
simulate_seeds(seed, num_auctions) ==
    SeedsHanded(ModSeedRange(Abs(seed)), num_auctions)

\* cached_simulate.py run_cached_simulation: request.seed goes unchanged to
\* simulate_volume_based_auctions, which seeds with it and runs a keyword's
\* auction auction_id with seed + auction_id.
cached_simulate_seeds(seed, daily_auctions) == SeedsHanded(seed, daily_auctions)

RequestSeeds ==
    {Big(0, 0), Big(0, 12345), Big(0, 0 - 1), Big(0, 0 - 12345),
     Big(1, 0 - 100001), Big(1, 0 - 100000), Big(1, 0 - 101), Big(1, 0 - 100),
     Big(1, 0 - 2), Big(1, 0 - 1), Big(1, 0), Big(1, 1), Big(1, 12345),
     Big(0 - 1, 2), Big(0 - 1, 0), Big(0 - 1, 0 - 5)}

SeedIdle == UNCHANGED <<cacheVars, svcVars, hashVars, aucVars, salt, rng, request>>

SeedInit ==
    /\ request \in [endpoint : {"simulate"}, seed : RequestSeeds,
                    auctions : {100, 1000, 100000}]
                     \cup [endpoint : {"cached_simulate"}, seed : RequestSeeds,
                           auctions : {1, 50}]
    /\ output = <<>>
    /\ rng = <<>>
    /\ ads = <<>>
    /\ winners = <<>>
    /\ CacheInit
    /\ cache_enabled = TRUE
    /\ calls = <<>>
    /\ cfg1 = JStr("")
    /\ cfg2 = JStr("")
    /\ keys = <<>>
    /\ salt = <<>>

RunSimulationSeeds ==
    /\ ret.op = "init" /\ request.endpoint = "simulate"
    /\ output' = simulate_seeds(request.seed, request.auctions)
    /\ ret' = [op |-> "simulate"]
    /\ SeedIdle

CachedSimulateSeeds ==
    /\ ret.op = "init" /\ request.endpoint = "cached_simulate"
    /\ output' = cached_simulate_seeds(request.seed, request.auctions)
    /\ ret' = [op |-> "cached_simulate"]
    /\ SeedIdle

SeedNext == RunSimulationSeeds \/ CachedSimulateSeeds

SpecSeeds == SeedInit /\ [][SeedNext]_vars

\* C27 (as the specification states it): whatever integer seed the request
\* carries, every seed handed to the generator is in 0 .. 2^32 - 1 and the
\* seeding does not raise.
C27_SeedsInRange ==
    ret.op # "init" =>
       /\ SeedAccepted(output.first)
       /\ SeedAccepted(output.last)
       /\ ~output.raised

\* The base seed of run_simulation is in range, and so are all seeds of a
\* request whose seed is in 0 .. 2^32 - 1 - auctions.
SeedsInRangeBelowTop ==
    /\ ret.op = "simulate" => SeedAccepted(output.first)
    /\ (/\ ret.op # "init"
        /\ SeedAccepted(request.seed)
        /\ SeedAccepted([request.seed EXCEPT !.rest = @ + request.auctions]))
         => ~output.raised

(***************************************************************************)
(* Confidence ranges (core/confidence_ranges.py).  Variances are in        *)
(* thousandths (0.01 is 10), landing-page scores in hundredths, metric     *)
(* values in whole units and bounds in thousandths of a unit.              *)
(***************************************************************************)
match_type_variance(match_type) ==
    CASE match_type = "exact" -> 10
      [] match_type = "phrase" -> 30
      [] match_type = "broad" -> 50
      [] OTHER -> 30

\* A missing or empty campaign context (<<>>) adds nothing.
calculate_context_factor(campaign_context) ==
    IF campaign_context = <<>> THEN 0
    ELSE (CASE campaign_context.lp_score < 50 -> 20
            [] campaign_context.lp_score > 90 -> 0 - 10
            [] OTHER -> 0)
         + (CASE campaign_context.goal = "brand_awareness" -> 10
              [] campaign_context.goal = "sales" -> 0 - 5
              [] OTHER -> 0)
         + (IF campaign_context.geo # "US" THEN 10 ELSE 0)

calculate_confidence_range(value, metric_type, match_type, campaign_context) ==
    LET total_variance == match_type_variance(match_type)
                            + calculate_context_factor(campaign_context)
        variance_amount == value * total_variance
        below == value * 1000 - variance_amount
    IN  [lower_bound |-> IF below > 0 THEN below ELSE 0,
         upper_bound |-> value * 1000 + variance_amount,
         variance_percentage |-> total_variance]

MetricValues == {0, 1, 40, 2500}

MetricTypes == {"ctr", "cost"}

ConfidenceMatchTypes == {"exact", "phrase", "broad"}

CampaignContexts ==
    {<<>>} \cup [lp_score : {30, 70, 95},
                 goal : {"sales", "brand_awareness", "leads"},
                 geo : {"US", "CA"}]

ConfidenceIdle == UNCHANGED <<cacheVars, svcVars, hashVars, aucVars, salt, rng, request>>

ConfidenceInit ==
    /\ request \in [value : MetricValues, metric_type : MetricTypes,
                    match_type : ConfidenceMatchTypes,
                    campaign_context : CampaignContexts]
    /\ output = <<>>
    /\ rng = <<>>
    /\ ads = <<>>
    /\ winners = <<>>
    /\ CacheInit
    /\ cache_enabled = TRUE
    /\ calls = <<>>
    /\ cfg1 = JStr("")
    /\ cfg2 = JStr("")
    /\ keys = <<>>
    /\ salt = <<>>

CalculateConfidenceRange ==
    /\ ret.op = "init"
    /\ output' = calculate_confidence_range(request.value, request.metric_type,
                                            request.match_type,
                                            request.campaign_context)
    /\ ret' = [op |-> "calculate_confidence_range"]
    /\ ConfidenceIdle

ConfidenceNext == CalculateConfidenceRange

SpecConfidence == ConfidenceInit /\ [][ConfidenceNext]_vars

\* C28 (as the specification states it): for every non-negative value, match
\* type and campaign context the variance is at least 0 and
\* 0 <= lower_bound <= value <= upper_bound.
C28_BoundsEnclose ==
    ret.op = "calculate_confidence_range" =>
       /\ output.variance_percentage >= 0
       /\ 0 <= output.lower_bound
       /\ output.lower_bound <= request.value * 1000
       /\ request.value * 1000 <= output.upper_bound

\* The bounds are value -/+ value * variance with the lower one floored at 0,
\* and they enclose the value whenever the context factor does not cancel the
\* match-type variance.
BoundsEncloseWithoutDiscount ==
    ret.op = "calculate_confidence_range" =>
       /\ output.lower_bound >= 0
       /\ output.upper_bound
            = request.value * 1000 + request.value * output.variance_percentage
       /\ (request.campaign_context = <<>>
             \/ calculate_context_factor(request.campaign_context) >= 0)
            => /\ output.variance_percentage >= 0
               /\ output.lower_bound <= request.value * 1000
               /\ request.value * 1000 <= output.upper_bound

(***************************************************************************)
(* The quality-score factor of calculate_enhanced_ctr and                  *)
(* calculate_enhanced_cvr, in hundredths.                                  *)
(***************************************************************************)
EnhancedRateApplied == ret.op \in {"calculate_enhanced_ctr", "calculate_enhanced_cvr"}

\* the increase of the factor per point of quality score
QsFactorStep == qs_modifier(2) - qs_modifier(1)

QsFactorLinear ==
    qs_modifier(request.quality_score)
      = qs_modifier(1) + (request.quality_score - 1) * QsFactorStep

\* C29 (as the specification states it): the quality-score factor applied to
\* CTR and CVR is linear in the quality score, is exactly 1.0 at quality score
\* 7, 0.7 at quality score 1 and 1.3 at quality score 10.
C29_QualityFactorBaseline ==
    EnhancedRateApplied =>
       /\ QsFactorLinear
       /\ request.quality_score = 7 => qs_modifier(request.quality_score) = 100
       /\ request.quality_score = 1 => qs_modifier(request.quality_score) = 70
       /\ request.quality_score = 10 => qs_modifier(request.quality_score) = 130

\* The factor is linear with 0.06 per point: 0.76 at quality score 1, 1.12 at
\* quality score 7 and 1.3 at quality score 10, so within [0.7, 1.3].
QualityFactorAsComputed ==
    EnhancedRateApplied =>
       /\ QsFactorLinear
       /\ QsFactorStep = 6
       /\ request.quality_score = 7 => qs_modifier(request.quality_score) = 112
       /\ request.quality_score = 1 => qs_modifier(request.quality_score) = 76
       /\ request.quality_score = 10 => qs_modifier(request.quality_score) = 130
       /\ qs_modifier(request.quality_score) \in 70..130

(***************************************************************************)
(* Calls of run_cached_simulation that bypass the cache.                   *)
(***************************************************************************)
\* this step is a run_cached_simulation call
RunStep == Len(calls') = Len(calls) + 1 /\ ret'.op = "run_cached_simulation"

\* C30: a run_cached_simulation call with use_cache = false, or made while
\* the cache is disabled, leaves the cached keys, every stored payload and
\* the counters hits, misses, evictions and total_requests as they were and
\* answers with cache_hit = false; enable_cache turns caching on again, so
\* that a later call with use_cache = true consults the cache.
C30_BypassLeavesCache ==
    [][/\ (RunStep /\ ~(ret'.use_cache /\ cache_enabled))
            => /\ memory_cache' = memory_cache
               /\ cache_dir' = cache_dir
               /\ stats' = stats
               /\ ret'.response.cache_hit = FALSE
               /\ ret'.fresh
       /\ ret'.op = "enable_cache" => cache_enabled'
       /\ (RunStep /\ ret'.use_cache /\ cache_enabled)
            => stats'.total_requests = stats.total_requests + 1]_vars

\* A bypassing call has answered a request for which the cache holds an
\* entry, with a fresh simulation.
C30_Witness ==
    /\ ret.op = "run_cached_simulation"
    /\ ~(ret.use_cache /\ cache_enabled)
    /\ HoldsEntryFor(ret.request)
    /\ stats.total_requests > 0
    /\ ret.response.cache_hit = FALSE
    /\ ret.fresh

====
